---------------------------- MODULE Spec2Model ----------------------------
(***************************************************************************)
(* A model of llamafile_sgemm (ggml/src/ggml-cpu/llamafile/sgemm.cpp): the *)
(* dispatcher, the floating-point tile engine tinyBLAS with its two-level  *)
(* job scheduler, and the quantised tile engine tinyBLAS_Q0_AVX with its   *)
(* recursive partitioner, run by a pool of nth workers.                    *)
(*                                                                         *)
(* Matrix elements, block payloads and block deltas are integer valued, so *)
(* that every f32 operation of the kernels is exact; lanes of the          *)
(* quantised payloads are 8-bit values with wrap-around as in the          *)
(* intrinsics.                                                             *)
(***************************************************************************)
EXTENDS Integers, Sequences, FiniteSets, TLC

(***************************************************************************)
(* Bounds of the model.                                                    *)
(***************************************************************************)
MaxNth == 2
MaxCalls == 2
MaxM == 6
MaxN == 7
WideN == 106
MaxBlocks == 2

(***************************************************************************)
(* Compile targets.  A build is the set of ISA macros the translation unit *)
(* is compiled with; the macros decide every #if of the source.            *)
(***************************************************************************)
Builds == {"NONE", "AVX", "AVX2", "AVX512F", "AVX512BF16", "VXE", "NEON"}

HasAVX512BF16(b) == b = "AVX512BF16"
HasAVX512F(b) == b \in {"AVX512F", "AVX512BF16"}
HasAVX2(b) == b \in {"AVX2", "AVX512F", "AVX512BF16"}
HasAVX(b) == b \in {"AVX", "AVX2", "AVX512F", "AVX512BF16"}
HasF16C(b) == b \in {"AVX2", "AVX512F", "AVX512BF16"}
HasVNNI(b) == b = "AVX512BF16"
HasVXE(b) == b = "VXE"
HasNEON(b) == b = "NEON"

\* #define VECTOR_REGISTERS
VECTOR_REGISTERS(b) == IF HasNEON(b) \/ HasAVX512F(b) \/ HasVXE(b) THEN 32 ELSE 16

(***************************************************************************)
(* Element types (ggml_type tags).  Q4_1 stands for every tag the switch   *)
(* of the dispatcher has no case for.                                      *)
(***************************************************************************)
FloatTypes == {"F32", "BF16", "F16"}
QuantTypes == {"Q8_0", "Q4_0", "Q5_0", "IQ4_NL"}
Types == FloatTypes \cup QuantTypes \cup {"Q4_1"}

NoKernel == [fam |-> "none", KN |-> 0]
FloatKernel(kn) == [fam |-> "fp", KN |-> kn]
QuantKernel == [fam |-> "q0", KN |-> 1]

\* case GGML_TYPE_F32
DispatchF32(b, Bt, nn) ==
    IF Bt # "F32" THEN NoKernel
    ELSE IF HasAVX512F(b) THEN FloatKernel(16)
    ELSE IF HasAVX(b) \/ HasAVX2(b) THEN FloatKernel(8)
    ELSE IF HasVXE(b) THEN (IF nn < 4 THEN NoKernel ELSE FloatKernel(4))
    ELSE NoKernel

\* case GGML_TYPE_BF16
DispatchBF16(b, Bt) ==
    IF HasAVX512BF16(b) THEN (IF Bt = "BF16" THEN FloatKernel(32) ELSE NoKernel)
    ELSE IF HasAVX512F(b) THEN (IF Bt = "BF16" THEN FloatKernel(16) ELSE NoKernel)
    ELSE IF HasAVX2(b) THEN (IF Bt = "BF16" THEN FloatKernel(8) ELSE NoKernel)
    ELSE NoKernel

\* case GGML_TYPE_F16
DispatchF16(b, Bt, nn) ==
    IF HasAVX512F(b) THEN (IF Bt = "F16" THEN FloatKernel(16) ELSE NoKernel)
    ELSE IF (HasAVX(b) \/ HasAVX2(b)) /\ HasF16C(b)
         THEN (IF Bt = "F16" THEN FloatKernel(8) ELSE NoKernel)
    ELSE IF HasVXE(b)
         THEN (IF nn < 4 THEN NoKernel
               ELSE IF Bt = "F16" THEN FloatKernel(4) ELSE NoKernel)
    ELSE NoKernel

\* the quantised cases without their test of Btype
DispatchQ0AnyB(b, Bt) ==
    IF HasAVX2(b) \/ HasAVX512F(b) \/ HasAVX(b) THEN QuantKernel
    ELSE NoKernel

\* case GGML_TYPE_Q8_0, GGML_TYPE_Q4_0, GGML_TYPE_Q5_0, GGML_TYPE_IQ4_NL
DispatchQ0(b, Bt) ==
    IF Bt # "Q8_0" THEN NoKernel
    ELSE IF HasAVX2(b) \/ HasAVX512F(b) \/ HasAVX(b) THEN QuantKernel
    ELSE NoKernel

\* the entry point with its guard off by one: n < 1 instead of n < 2
DispatchGuardOffByOne(b, At, Bt, Ct, nn) ==
    IF nn < 1 THEN NoKernel
    ELSE IF Ct # "F32" THEN NoKernel
    ELSE CASE At = "F32" -> DispatchF32(b, Bt, nn)
           [] At = "BF16" -> DispatchBF16(b, Bt)
           [] At = "F16" -> DispatchF16(b, Bt, nn)
           [] At \in QuantTypes -> DispatchQ0(b, Bt)
           [] OTHER -> NoKernel

\* llamafile_sgemm up to the instantiation of the kernel: the kernel the
\* call runs, or NoKernel where the entry point returns false at once.
Dispatch(b, At, Bt, Ct, nn) ==
    IF nn < 2 THEN NoKernel
    ELSE IF Ct # "F32" THEN NoKernel
    ELSE CASE At = "F32" -> DispatchF32(b, Bt, nn)
           [] At = "BF16" -> DispatchBF16(b, Bt)
           [] At = "F16" -> DispatchF16(b, Bt, nn)
           [] At \in QuantTypes -> DispatchQ0(b, Bt)
           [] OTHER -> NoKernel


(***************************************************************************)
(* Operands.  The operand buffers are immutable during a call; their       *)
(* contents are fixed integer-valued patterns indexed by row and column,   *)
(* A + lda*i + l and B + ldb*j + l.  Quantised operands are blocks of a    *)
(* delta d, payload bytes qs and, for q5_0, four bytes qh.                 *)
(***************************************************************************)
Lanes == 0 .. 31

RECURSIVE Sum(_, _, _)
Sum(F(_), lo, hi) == IF lo > hi THEN 0 ELSE F(lo) + Sum(F, lo + 1, hi)

AElem(i, l) == ((3 * i + 5 * l + 1) % 7) - 3
BElem(j, l) == ((2 * j + 3 * l + 2) % 5) - 2

ADelta(i, l) == 1 + ((i + l) % 2)
BDelta(j, l) == 1 + ((2 * j + l) % 3)

\* payload byte q of block l of row i of A, as stored (0..255)
AQs(At, i, l, q) ==
    IF At = "Q8_0" /\ q % 8 = 3 THEN 128
    ELSE (37 * i + 11 * l + 29 * q + 5) % 256

\* byte q (0..3) of the qh field of a q5_0 block
AQh(i, l, q) == (53 * i + 17 * l + 101 * q + 9) % 256

\* payload byte q of block l of row j of B (always q8_0), as stored
BQs(full, j, l, q) ==
    IF full /\ q % 8 = 0 THEN 128
    ELSE (((11 * j + 2 * l + 9 * q) % 255) - 127) % 256

(***************************************************************************)
(* 8-bit lane arithmetic of the intrinsics.                                *)
(***************************************************************************)
ToInt8(x) == LET r == x % 256 IN IF r >= 128 THEN r - 256 ELSE r
U8(x) == x % 256
\* saturation to 15 bits
Sat15(x) == IF x > 16383 THEN 16383 ELSE IF x < -16384 THEN -16384 ELSE x
\* the signed saturation of _mm256_maddubs_epi16
Sat16(x) == IF x > 32767 THEN 32767 ELSE IF x < -32768 THEN -32768 ELSE x

Pow2(e) == CASE e = 0 -> 1 [] e = 1 -> 2 [] e = 2 -> 4 [] e = 3 -> 8
             [] e = 4 -> 16 [] e = 5 -> 32 [] e = 6 -> 64 [] e = 7 -> 128

\* the absolute value of x whatever the sign of y
sign_epi8_abs(x, y) == IF x < 0 THEN ToInt8(0 - x) ELSE x

\* _mm256_sign_epi8(x, y), one lane
sign_epi8(x, y) == IF y < 0 THEN ToInt8(0 - x) ELSE IF y = 0 THEN 0 ELSE x

\* kvalues_iq4nl
kvalues_iq4nl == <<-127, -104, -83, -65, -49, -35, -22, -10,
                   1, 13, 25, 38, 53, 69, 89, 113>>

\* denibble without the shift of the high nibbles: every lane a low nibble
denibble_low(qs, q) == qs[q % 16] % 16

\* denibble(p), lane q: low nibbles in lanes 0..15, high nibbles in 16..31
denibble(qs, q) == IF q < 16 THEN qs[q] % 16 ELSE (qs[q - 16] \div 16) % 16

\* bittobyte with the polarity exchanged: 0xF0 where the bit is set
bittobyte_set(qh, q) ==
    LET bit == (qh[q \div 8] \div Pow2(q % 8)) % 2
    IN IF bit = 1 THEN 240 ELSE 0

\* bittobyte(p), lane q: 0xF0 where bit q of the 32-bit qh is clear, else 0
bittobyte(qh, q) ==
    LET bit == (qh[q \div 8] \div Pow2(q % 8)) % 2
    IN IF bit = 1 THEN 0 ELSE 240

\* load(const block_* *b): the 32 decoded lanes of one block of A
load(At, qs, qh, q) ==
    CASE At = "Q8_0" -> ToInt8(qs[q])
      [] At = "Q4_0" -> ToInt8(denibble(qs, q) - 8)
      [] At = "Q5_0" -> ToInt8(denibble(qs, q) + bittobyte(qh, q))
      [] At = "IQ4_NL" -> kvalues_iq4nl[denibble(qs, q) + 1]

\* load0(const block_* *b), lane q of 16: the low half of the block, built
\* from 128-bit registers.  For q5_0 the shuffle broadcasts byte 0 of qh to
\* lanes 0..7 and byte 1 to lanes 8..15, the or with 0x7fbfdfeff7fbfdfe and
\* the compare with -1 leave 0xFF where bit q % 8 of that byte is set, and
\* the andnot with 0xF0 leaves 0xF0 where it is clear.
load0(At, qs, qh, q) ==
    CASE At = "Q8_0" -> ToInt8(qs[q])
      [] At = "Q4_0" -> ToInt8((qs[q] % 16) - 8)
      [] At = "Q5_0" ->
           LET byte == qh[IF q < 8 THEN 0 ELSE 1]
               set == (byte \div Pow2(q % 8)) % 2 = 1
           IN ToInt8((qs[q] % 16) + (IF set THEN 0 ELSE 240))
      [] At = "IQ4_NL" -> kvalues_iq4nl[(qs[q] % 16) + 1]

\* load1(const block_* *b), lane q of 16: the high half; for q5_0 from the
\* high nibbles and bytes 2 and 3 of qh
load1(At, qs, qh, q) ==
    CASE At = "Q8_0" -> ToInt8(qs[16 + q])
      [] At = "Q4_0" -> ToInt8(((qs[q] \div 16) % 16) - 8)
      [] At = "Q5_0" ->
           LET byte == qh[IF q < 8 THEN 2 ELSE 3]
               set == (byte \div Pow2(q % 8)) % 2 = 1
           IN ToInt8(((qs[q] \div 16) % 16) + (IF set THEN 0 ELSE 240))
      [] At = "IQ4_NL" -> kvalues_iq4nl[((qs[q] \div 16) % 16) + 1]

\* the payload of block l of row i of A and of row j of B
ABlockQs(At, i, l) == [b \in Lanes |-> AQs(At, i, l, b)]
ABlockQh(i, l) == [b \in 0 .. 3 |-> AQh(i, l, b)]
BBlockQs(full, j, l) == [b \in Lanes |-> BQs(full, j, l, b)]

\* updot(u, s), output lane g (0..7): four u8*i8 products summed to 32 bits.
\* With VNNI the sum is exact (dpbusd); otherwise _mm256_maddubs_epi16
\* saturates each pairwise sum to 16 bits before _mm256_madd_epi16 adds pairs.
updot(b, u, s, g) ==
    IF HasVNNI(b)
    THEN Sum(LAMBDA q : U8(u[4 * g + q]) * s[4 * g + q], 0, 3)
    ELSE Sat16(U8(u[4 * g]) * s[4 * g] + U8(u[4 * g + 1]) * s[4 * g + 1])
         + Sat16(U8(u[4 * g + 2]) * s[4 * g + 2] + U8(u[4 * g + 3]) * s[4 * g + 3])

\* one block step of the quantised kernels, summed over the 8 lanes by hsum:
\* madd(delta(A) * delta(B), updot(sign(A, A), sign(B, A)), Cv[j][i])
QBlockTerm(b, At, full, i, j, l) ==
    LET aqs == ABlockQs(At, i, l)
        aqh == ABlockQh(i, l)
        bqs == BBlockQs(full, j, l)
        a == [q \in Lanes |-> load(At, aqs, aqh, q)]
        bb == [q \in Lanes |-> load("Q8_0", bqs, aqh, q)]
        u == [q \in Lanes |-> sign_epi8(a[q], a[q])]
        s == [q \in Lanes |-> sign_epi8(bb[q], a[q])]
    IN (ADelta(i, l) * BDelta(j, l)) * Sum(LAMBDA g : updot(b, u, s, g), 0, 7)

\* the value tinyBLAS_Q0_AVX stores in C[ldc*j + i]
QCell(b, At, full, kk, i, j) ==
    Sum(LAMBDA l : QBlockTerm(b, At, full, i, j, l), 0, kk - 1)

\* the value tinyBLAS::gemm_bloc stores in C[ldc*j + i]: KN lanes, each the
\* madd chain over l = 0, KN, 2 KN, ..., reduced by hsum
FCell(KN, kk, i, j) ==
    Sum(LAMBDA q :
          Sum(LAMBDA c : AElem(i, KN * c + q) * BElem(j, KN * c + q),
              0, (kk \div KN) - 1),
        0, KN - 1)

(***************************************************************************)
(* The reference: the naive triple loop over the dequantised operands.     *)
(***************************************************************************)
RefLane(At, qs, qh, q) ==
    LET nib == IF q < 16 THEN qs[q] % 16 ELSE qs[q - 16] \div 16
        bit == (qh[q \div 8] \div Pow2(q % 8)) % 2
    IN CASE At = "Q8_0" -> IF qs[q] >= 128 THEN qs[q] - 256 ELSE qs[q]
         [] At = "Q4_0" -> nib - 8
         [] At = "Q5_0" -> (nib + 16 * bit) - 16
         [] At = "IQ4_NL" -> kvalues_iq4nl[nib + 1]

RefBlockTerm(At, full, i, j, l) ==
    LET aqs == ABlockQs(At, i, l)
        aqh == ABlockQh(i, l)
        bqs == BBlockQs(full, j, l)
    IN (ADelta(i, l) * BDelta(j, l))
       * Sum(LAMBDA q : RefLane(At, aqs, aqh, q) * RefLane("Q8_0", bqs, aqh, q),
             0, 31)

RefCell(At, full, kk, i, j) ==
    IF At \in QuantTypes
    THEN Sum(LAMBDA l : RefBlockTerm(At, full, i, j, l), 0, kk - 1)
    ELSE Sum(LAMBDA l : AElem(i, l) * BElem(j, l), 0, kk - 1)

(***************************************************************************)
(* Floating-point tile engine: tile shape, column tiling, stripes, jobs.   *)
(***************************************************************************)
Min(a, b) == IF a < b THEN a ELSE b

\* BLOCK_SIZE that adds one to the quotient whether or not there is a remainder
BLOCK_SIZE_over(M, mm) ==
    LET NB_BLOC_M == (mm + M - 1) \div M
    IN (mm \div NB_BLOC_M) + 1

\* template <int M> BLOCK_SIZE(m)
BLOCK_SIZE(M, mm) ==
    LET NB_BLOC_M == (mm + M - 1) \div M
    IN IF mm % NB_BLOC_M = 0 THEN mm \div NB_BLOC_M ELSE (mm \div NB_BLOC_M) + 1

\* BLOC_POS without the shorter blocks that follow the first ibN
BLOC_POS_flat(ib, ibN, bloc_size) == ib * bloc_size

\* BLOC_POS(ib, ibN, bloc_size)
BLOC_POS(ib, ibN, bloc_size) ==
    IF ib < ibN THEN ib * bloc_size
    ELSE ibN * bloc_size + (ib - ibN) * (bloc_size - 1)

\* matmul with a last branch that runs single rows instead of returning false
TileShapeAny(b, mm, nthv) ==
    LET RN0 == IF VECTOR_REGISTERS(b) = 32 THEN 6 ELSE 3
        BN0 == IF VECTOR_REGISTERS(b) = 32 THEN 12 ELSE 24
    IN IF mm % 16 = 0 /\ mm \div 16 >= nthv
       THEN [ok |-> TRUE, RM |-> 4, RN |-> RN0, BM |-> 4, BN |-> BN0]
       ELSE IF mm % 8 = 0
       THEN [ok |-> TRUE, RM |-> 4, RN |-> RN0, BM |-> 2, BN |-> BN0]
       ELSE IF mm % 4 = 0
       THEN [ok |-> TRUE, RM |-> 4, RN |-> RN0, BM |-> 1, BN |-> BN0]
       ELSE [ok |-> TRUE, RM |-> 1, RN |-> RN0, BM |-> 1, BN |-> BN0]

\* matmul whose first branch tests only m/16 >= nth
TileShapeNoMod16(b, mm, nthv) ==
    LET RN0 == IF VECTOR_REGISTERS(b) = 32 THEN 6 ELSE 3
        BN0 == IF VECTOR_REGISTERS(b) = 32 THEN 12 ELSE 24
    IN IF mm \div 16 >= nthv
       THEN [ok |-> TRUE, RM |-> 4, RN |-> RN0, BM |-> 4, BN |-> BN0]
       ELSE IF mm % 8 = 0
       THEN [ok |-> TRUE, RM |-> 4, RN |-> RN0, BM |-> 2, BN |-> BN0]
       ELSE IF mm % 4 = 0
       THEN [ok |-> TRUE, RM |-> 4, RN |-> RN0, BM |-> 1, BN |-> BN0]
       ELSE [ok |-> FALSE, RM |-> 0, RN |-> 0, BM |-> 0, BN |-> 0]

\* tinyBLAS::matmul after the preflight: the template arguments <RM, RN, BM>
\* and the stripe target BN of the mnpack call, or ok = FALSE (return false)
TileShape(b, mm, nthv) ==
    LET RN0 == IF VECTOR_REGISTERS(b) = 32 THEN 6 ELSE 3
        BN0 == IF VECTOR_REGISTERS(b) = 32 THEN 12 ELSE 24
    IN IF mm % 16 = 0 /\ mm \div 16 >= nthv
       THEN [ok |-> TRUE, RM |-> 4, RN |-> RN0, BM |-> 4, BN |-> BN0]
       ELSE IF mm % 8 = 0
       THEN [ok |-> TRUE, RM |-> 4, RN |-> RN0, BM |-> 2, BN |-> BN0]
       ELSE IF mm % 4 = 0
       THEN [ok |-> TRUE, RM |-> 4, RN |-> RN0, BM |-> 1, BN |-> BN0]
       ELSE [ok |-> FALSE, RM |-> 0, RN |-> 0, BM |-> 0, BN |-> 0]

\* tinyBLAS::mnpack<RM, RN, BM>: the RN gemm is instantiated with, found by
\* stepping RN down to SIZE_N; 0 stands for the GGML_ASSERT(false) branch
RECURSIVE FMnpack(_, _)
FMnpack(RN, SIZE_N) ==
    IF SIZE_N = RN THEN RN
    ELSE IF RN > 1 THEN FMnpack(RN - 1, SIZE_N)
    ELSE 0

\* gemm with xtiles rounded down
GemmPlanFloorTiles(mm, nn, RM, RN, BM, BN) ==
    LET ytiles == mm \div (RM * BM)
        xtiles == nn \div RN
        jj_RN == xtiles - (xtiles * RN - nn)
        NB_BN == IF xtiles < BN THEN 1 ELSE (xtiles + BN \div 2) \div BN
        SIZE_BN == IF xtiles % NB_BN = 0 THEN xtiles \div NB_BN
                   ELSE xtiles \div NB_BN + 1
        jj_BN == NB_BN - (NB_BN * SIZE_BN - xtiles)
    IN [RM |-> RM, RN |-> RN, BM |-> BM, ytiles |-> ytiles, xtiles |-> xtiles,
        jj_RN |-> jj_RN, NB_BN |-> NB_BN, SIZE_BN |-> SIZE_BN, jj_BN |-> jj_BN,
        nb_job |-> ytiles * NB_BN,
        assert_m |-> (mm % (RM * BM) = 0),
        assert_bn |-> (jj_BN * SIZE_BN + (NB_BN - jj_BN) * (SIZE_BN - 1) = xtiles)]

\* gemm with SIZE_BN rounded down
GemmPlanFloorStripe(mm, nn, RM, RN, BM, BN) ==
    LET ytiles == mm \div (RM * BM)
        xtiles == (nn + RN - 1) \div RN
        jj_RN == xtiles - (xtiles * RN - nn)
        NB_BN == IF xtiles < BN THEN 1 ELSE (xtiles + BN \div 2) \div BN
        SIZE_BN == xtiles \div NB_BN
        jj_BN == NB_BN - (NB_BN * SIZE_BN - xtiles)
    IN [RM |-> RM, RN |-> RN, BM |-> BM, ytiles |-> ytiles, xtiles |-> xtiles,
        jj_RN |-> jj_RN, NB_BN |-> NB_BN, SIZE_BN |-> SIZE_BN, jj_BN |-> jj_BN,
        nb_job |-> ytiles * NB_BN,
        assert_m |-> (mm % (RM * BM) = 0),
        assert_bn |-> (jj_BN * SIZE_BN + (NB_BN - jj_BN) * (SIZE_BN - 1) = xtiles)]

\* the constants tinyBLAS::gemm<RM, RN, BM>(m, n, BN) computes before its loop
GemmPlan(mm, nn, RM, RN, BM, BN) ==
    LET ytiles == mm \div (RM * BM)
        xtiles == (nn + RN - 1) \div RN
        jj_RN == xtiles - (xtiles * RN - nn)
        NB_BN == IF xtiles < BN THEN 1 ELSE (xtiles + BN \div 2) \div BN
        SIZE_BN == IF xtiles % NB_BN = 0 THEN xtiles \div NB_BN
                   ELSE xtiles \div NB_BN + 1
        jj_BN == NB_BN - (NB_BN * SIZE_BN - xtiles)
    IN [RM |-> RM, RN |-> RN, BM |-> BM, ytiles |-> ytiles, xtiles |-> xtiles,
        jj_RN |-> jj_RN, NB_BN |-> NB_BN, SIZE_BN |-> SIZE_BN, jj_BN |-> jj_BN,
        nb_job |-> ytiles * NB_BN,
        assert_m |-> (mm % (RM * BM) = 0),
        assert_bn |-> (jj_BN * SIZE_BN + (NB_BN - jj_BN) * (SIZE_BN - 1) = xtiles)]

\* for (; jj < to; jj += step): the values of jj the body runs with
RECURSIVE LoopSteps(_, _, _)
LoopSteps(from, to, step) ==
    IF from < to THEN {from} \cup LoopSteps(from + step, to, step) ELSE {}

\* ... and the value of jj when the loop is left
RECURSIVE LoopEnd(_, _, _)
LoopEnd(from, to, step) ==
    IF from < to THEN LoopEnd(from + step, to, step) ELSE from

\* the loop body with jj1 = jj_RN * RN, not capped by the end of the stripe
JobPlanNoMin(g, jobid) ==
    LET ii == (jobid % g.ytiles) * g.RM * g.BM
        jb == jobid \div g.ytiles
        jr0 == BLOC_POS(jb, g.jj_BN, g.SIZE_BN)
        jrN == BLOC_POS(jb + 1, g.jj_BN, g.SIZE_BN)
        jj0 == BLOC_POS(jr0, g.jj_RN, g.RN)
        jj2 == BLOC_POS(jrN, g.jj_RN, g.RN)
        jj1 == g.jj_RN * g.RN
        jjA == LoopEnd(jj0, jj1, g.RN)
        jjB == IF g.RN > 1 THEN LoopEnd(jjA, jj2, g.RN - 1) ELSE jjA
        bis == {bi \in 0 .. (g.BM * g.RM - 1) : bi % g.RM = 0}
    IN [tiles |->
            {[ii |-> ii + bi, jj |-> jj, RM |-> g.RM, RN |-> g.RN] :
                bi \in bis, jj \in LoopSteps(jj0, jj1, g.RN)}
            \cup
            (IF g.RN > 1
             THEN {[ii |-> ii + bi, jj |-> jj, RM |-> g.RM, RN |-> g.RN - 1] :
                     bi \in bis, jj \in LoopSteps(jjA, jj2, g.RN - 1)}
             ELSE {}),
        ii |-> ii, jb |-> jb, jj0 |-> jj0, jj1 |-> jj1, jj2 |-> jj2,
        assert_jj |-> (jjB = jj2)]

\* the loop body with the row tile taken from jobid / ytiles
JobPlanRowOfQuotient(g, jobid) ==
    LET ii == (jobid \div g.ytiles) * g.RM * g.BM
        jb == jobid \div g.ytiles
        jr0 == BLOC_POS(jb, g.jj_BN, g.SIZE_BN)
        jrN == BLOC_POS(jb + 1, g.jj_BN, g.SIZE_BN)
        jj0 == BLOC_POS(jr0, g.jj_RN, g.RN)
        jj2 == BLOC_POS(jrN, g.jj_RN, g.RN)
        jj1 == IF jj2 < g.jj_RN * g.RN THEN jj2 ELSE g.jj_RN * g.RN
        jjA == LoopEnd(jj0, jj1, g.RN)
        jjB == IF g.RN > 1 THEN LoopEnd(jjA, jj2, g.RN - 1) ELSE jjA
        bis == {bi \in 0 .. (g.BM * g.RM - 1) : bi % g.RM = 0}
    IN [tiles |->
            {[ii |-> ii + bi, jj |-> jj, RM |-> g.RM, RN |-> g.RN] :
                bi \in bis, jj \in LoopSteps(jj0, jj1, g.RN)}
            \cup
            (IF g.RN > 1
             THEN {[ii |-> ii + bi, jj |-> jj, RM |-> g.RM, RN |-> g.RN - 1] :
                     bi \in bis, jj \in LoopSteps(jjA, jj2, g.RN - 1)}
             ELSE {}),
        ii |-> ii, jb |-> jb, jj0 |-> jj0, jj1 |-> jj1, jj2 |-> jj2,
        assert_jj |-> (jjB = jj2)]

\* the body of the while loop of tinyBLAS::gemm for one job id: the
\* gemm_bloc<RM, RN>(ii, jj) calls it makes, and whether every
\* GGML_ASSERT(jj == jj2) holds
JobPlan(g, jobid) ==
    LET ii == (jobid % g.ytiles) * g.RM * g.BM
        jb == jobid \div g.ytiles
        jr0 == BLOC_POS(jb, g.jj_BN, g.SIZE_BN)
        jrN == BLOC_POS(jb + 1, g.jj_BN, g.SIZE_BN)
        jj0 == BLOC_POS(jr0, g.jj_RN, g.RN)
        jj2 == BLOC_POS(jrN, g.jj_RN, g.RN)
        jj1 == IF jj2 < g.jj_RN * g.RN THEN jj2 ELSE g.jj_RN * g.RN
        jjA == LoopEnd(jj0, jj1, g.RN)
        jjB == IF g.RN > 1 THEN LoopEnd(jjA, jj2, g.RN - 1) ELSE jjA
        bis == {bi \in 0 .. (g.BM * g.RM - 1) : bi % g.RM = 0}
    IN [tiles |->
            {[ii |-> ii + bi, jj |-> jj, RM |-> g.RM, RN |-> g.RN] :
                bi \in bis, jj \in LoopSteps(jj0, jj1, g.RN)}
            \cup
            (IF g.RN > 1
             THEN {[ii |-> ii + bi, jj |-> jj, RM |-> g.RM, RN |-> g.RN - 1] :
                     bi \in bis, jj \in LoopSteps(jjA, jj2, g.RN - 1)}
             ELSE {}),
        ii |-> ii, jb |-> jb, jj0 |-> jj0, jj1 |-> jj1, jj2 |-> jj2,
        assert_jj |-> (jjB = jj2)]

(***************************************************************************)
(* Quantised tile engine: shape table, flat scheme, recursive partitioner. *)
(***************************************************************************)
\* the switch with the digits of the key exchanged
QShapeKeySwapped(b, dm, dn) ==
    LET key == Min(dn, 4) * 16 + Min(dm, 4)
        wide == VECTOR_REGISTERS(b) = 32
    IN CASE key = 68 -> IF wide THEN <<4, 4>> ELSE <<4, 2>>
         [] key = 67 -> IF wide THEN <<4, 3>> ELSE <<4, 2>>
         [] key = 52 -> IF wide THEN <<3, 4>> ELSE <<2, 4>>
         [] key = 51 -> IF wide THEN <<3, 3>> ELSE <<3, 2>>
         [] key = 66 -> <<4, 2>>
         [] key = 36 -> <<2, 4>>
         [] key = 50 -> <<3, 2>>
         [] key = 35 -> <<2, 3>>
         [] key = 65 -> <<4, 1>>
         [] key = 34 -> <<2, 2>>
         [] key = 20 -> <<1, 4>>
         [] key = 49 -> <<3, 1>>
         [] key = 19 -> <<1, 3>>
         [] key = 33 -> <<2, 1>>
         [] key = 18 -> <<1, 2>>
         [] key = 17 -> <<1, 1>>
         [] OTHER -> <<0, 0>>

\* the switch compiled with the 32-register cases on every build
QShapeAllWide(b, dm, dn) ==
    LET key == Min(dm, 4) * 16 + Min(dn, 4)
        wide == VECTOR_REGISTERS(b) >= 16
    IN CASE key = 68 -> IF wide THEN <<4, 4>> ELSE <<4, 2>>
         [] key = 67 -> IF wide THEN <<4, 3>> ELSE <<4, 2>>
         [] key = 52 -> IF wide THEN <<3, 4>> ELSE <<2, 4>>
         [] key = 51 -> IF wide THEN <<3, 3>> ELSE <<3, 2>>
         [] key = 66 -> <<4, 2>>
         [] key = 36 -> <<2, 4>>
         [] key = 50 -> <<3, 2>>
         [] key = 35 -> <<2, 3>>
         [] key = 65 -> <<4, 1>>
         [] key = 34 -> <<2, 2>>
         [] key = 20 -> <<1, 4>>
         [] key = 49 -> <<3, 1>>
         [] key = 19 -> <<1, 3>>
         [] key = 33 -> <<2, 1>>
         [] key = 18 -> <<1, 2>>
         [] key = 17 -> <<1, 1>>
         [] OTHER -> <<0, 0>>

\* the switch of tinyBLAS_Q0_AVX::mnpack: <<mc, nc>>, <<0, 0>> for default
QShape(b, dm, dn) ==
    LET key == Min(dm, 4) * 16 + Min(dn, 4)
        wide == VECTOR_REGISTERS(b) = 32
    IN CASE key = 68 -> IF wide THEN <<4, 4>> ELSE <<4, 2>>
         [] key = 67 -> IF wide THEN <<4, 3>> ELSE <<4, 2>>
         [] key = 52 -> IF wide THEN <<3, 4>> ELSE <<2, 4>>
         [] key = 51 -> IF wide THEN <<3, 3>> ELSE <<3, 2>>
         [] key = 66 -> <<4, 2>>
         [] key = 36 -> <<2, 4>>
         [] key = 50 -> <<3, 2>>
         [] key = 35 -> <<2, 3>>
         [] key = 65 -> <<4, 1>>
         [] key = 34 -> <<2, 2>>
         [] key = 20 -> <<1, 4>>
         [] key = 49 -> <<3, 1>>
         [] key = 19 -> <<1, 3>>
         [] key = 33 -> <<2, 1>>
         [] key = 18 -> <<1, 2>>
         [] key = 17 -> <<1, 1>>
         [] OTHER -> <<0, 0>>

\* the kernel the case of the switch calls
QKernelFn(b, mc, nc) ==
    IF HasAVX2(b) /\ HasF16C(b) /\ mc = 4 THEN "gemm4xN"
    ELSE IF HasAVX2(b) /\ HasF16C(b) /\ nc = 4 THEN "gemmMx4"
    ELSE "gemm"

\* the flat scheme with the duty rounded down instead of up
QGemmFloorDuty(ith, nthv, m0, mm, n0, nn, RM, RN) ==
    LET ytiles == (mm - m0) \div RM
        xtiles == (nn - n0) \div RN
        tiles == xtiles * ytiles
        duty == tiles \div nthv
        start == duty * ith
        end == IF start + duty > tiles THEN tiles ELSE start + duty
    IN {[ii |-> m0 + (jobid \div xtiles) * RM, jj |-> n0 + (jobid % xtiles) * RN,
         RM |-> RM, RN |-> RN, m0 |-> m0, n0 |-> n0, job |-> jobid] :
           jobid \in start .. (end - 1)}

\* the flat scheme with the tile counts rounded up
QGemmCeilTiles(ith, nthv, m0, mm, n0, nn, RM, RN) ==
    LET ytiles == (mm - m0 + RM - 1) \div RM
        xtiles == (nn - n0 + RN - 1) \div RN
        tiles == xtiles * ytiles
        duty == (tiles + nthv - 1) \div nthv
        start == duty * ith
        end == IF start + duty > tiles THEN tiles ELSE start + duty
    IN {[ii |-> m0 + (jobid \div xtiles) * RM, jj |-> n0 + (jobid % xtiles) * RN,
         RM |-> RM, RN |-> RN, m0 |-> m0, n0 |-> n0, job |-> jobid] :
           jobid \in start .. (end - 1)}

\* the flat scheme without if (end > tiles) end = tiles
QGemmNoClamp(ith, nthv, m0, mm, n0, nn, RM, RN) ==
    LET ytiles == (mm - m0) \div RM
        xtiles == (nn - n0) \div RN
        tiles == xtiles * ytiles
        duty == (tiles + nthv - 1) \div nthv
        start == duty * ith
        end == start + duty
    IN {[ii |-> m0 + (jobid \div xtiles) * RM, jj |-> n0 + (jobid % xtiles) * RN,
         RM |-> RM, RN |-> RN, m0 |-> m0, n0 |-> n0, job |-> jobid] :
           jobid \in start .. (end - 1)}

\* gemm<RM, RN>, gemm4xN<RN> and gemmMx4<RM> of tinyBLAS_Q0_AVX: the tiles
\* worker ith of nthv computes for the region [m0, mm) x [n0, nn)
QGemm(ith, nthv, m0, mm, n0, nn, RM, RN) ==
    LET ytiles == (mm - m0) \div RM
        xtiles == (nn - n0) \div RN
        tiles == xtiles * ytiles
        duty == (tiles + nthv - 1) \div nthv
        start == duty * ith
        end == IF start + duty > tiles THEN tiles ELSE start + duty
    IN {[ii |-> m0 + (jobid \div xtiles) * RM, jj |-> n0 + (jobid % xtiles) * RN,
         RM |-> RM, RN |-> RN, m0 |-> m0, n0 |-> n0, job |-> jobid] :
           jobid \in start .. (end - 1)}

\* tinyBLAS_Q0_AVX::mnpack(m0, m, n0, n) run by worker ith
RECURSIVE QMnpack(_, _, _, _, _, _, _)
QMnpack(b, ith, nthv, m0, mm, n0, nn) ==
    LET sh == QShape(b, mm - m0, nn - n0)
        mc == sh[1]
        nc == sh[2]
        mp == m0 + ((mm - m0) \div mc) * mc
        np == n0 + ((nn - n0) \div nc) * nc
    IN IF mc = 0 THEN {}
       ELSE QGemm(ith, nthv, m0, mm, n0, nn, mc, nc)
            \cup QMnpack(b, ith, nthv, mp, mm, n0, np)
            \cup QMnpack(b, ith, nthv, m0, mm, np, nn)

\* the cells of C a tile stores to: C[ldc * (jj + j) + (ii + i)]
TileCells(t) == {<<t.ii + i, t.jj + j>> : i \in 0 .. (t.RM - 1), j \in 0 .. (t.RN - 1)}


(***************************************************************************)
(* The shapes and types of the calls explored, and the values the kernels  *)
(* and the reference compute for them (the operands being immutable, each  *)
(* value is a function of the call's arguments and the cell only).         *)
(***************************************************************************)
BTypes == {"F32", "BF16", "F16", "Q8_0"}
CTypes == {"F32", "F16"}
MSet == (0 .. MaxM) \cup {12, 16}
NSet == 0 .. MaxN
KSetF == {8, 16}
KSetQ == {0, MaxBlocks}
KNs == {4, 8, 16, 32}
Rows == 0 .. 15
Cols == 0 .. (MaxN - 1)
WideRows == 0 .. 3
WideCols == 0 .. (WideN - 1)
QRows == 0 .. (MaxM - 1)
QCols == 0 .. (MaxN - 1)

\* the cells of the floating-point grids explored, with the call's k
FGrid == (KSetF \X Rows \X Cols) \cup ({8} \X WideRows \X WideCols)

FValues ==
    [KN \in KNs, g \in FGrid |-> FCell(KN, g[1], g[2], g[3])]

QValues ==
    [vnni \in BOOLEAN, At \in QuantTypes, fl \in BOOLEAN, kk \in KSetQ,
     i \in QRows, j \in QCols |->
        QCell(IF vnni THEN "AVX512BF16" ELSE "AVX2", At, fl, kk, i, j)]

RefF ==
    [g \in FGrid |-> RefCell("F32", FALSE, g[1], g[2], g[3])]

RefQ ==
    [At \in QuantTypes, fl \in BOOLEAN, kk \in KSetQ, i \in QRows, j \in QCols |->
        RefCell(At, fl, kk, i, j)]

\* the reference value of cell c for the call's operands
RefValue(At, fl, kk, c) ==
    IF At \in QuantTypes THEN RefQ[At, fl, kk, c[1], c[2]] ELSE RefF[<<kk, c[1], c[2]>>]

(***************************************************************************)
(* State.                                                                  *)
(***************************************************************************)
VARIABLES
    build,            \* the compile target
    Atype, Btype, Ctype, m, n, k,   \* arguments of llamafile_sgemm
    nth,              \* params->nth, the size of the pool
    full,             \* whether the q8_0 payload of B has lanes of -128
    chunk,            \* the shared counter of the threadpool
    n_barrier,        \* ggml_barrier: workers that have arrived
    n_barrier_passed, \* ggml_barrier: barriers completed
    pc,               \* each worker's position
    seen,             \* each waiting worker's copy of n_barrier_passed
    job,              \* each worker's local job
    ncall,            \* how many calls each worker has entered
    ret,              \* each worker's last return value
    C,                \* the output matrix
    wrote,            \* stores to C by each worker in its current call
    wcount,           \* stores to each cell of C by all workers, per call
    oob,              \* some store fell outside [0,m) x [0,n)
    jcount,           \* executions of each job id, per call
    chunk_call,       \* the call in which thread 0 last stored the counter
    leak,             \* a fetch-add met a counter stored by another call
    aborted,          \* a GGML_ASSERT failed
    mnstack,          \* tinyBLAS_Q0_AVX::mnpack: the calls still to be made
    mncall,           \* tinyBLAS_Q0_AVX::mnpack: the call last made
    vec,              \* one output lane of updot: the four lanes of A and B
    blk,              \* one block_q5_0 and the lanes decoded from it
    tg,               \* struct taskflow_taskgraph
    wrappers,         \* the TaskflowWrapper objects allocated so far
    null_deref,       \* a null taskflow_graph was dereferenced
    after_init        \* taskflow_graph_init has returned and no free followed

inputs == <<build, Atype, Btype, Ctype, m, n, k, nth, full>>
barrier == <<n_barrier, n_barrier_passed, seen>>
output == <<C, wcount, oob>>
units == <<mnstack, mncall, vec, blk, tg, wrappers, null_deref, after_init>>
vars == <<inputs, chunk, barrier, pc, job, ncall, ret, output, wrote, jcount,
          chunk_call, leak, aborted, units>>

Workers == 0 .. (nth - 1)
Cells == (0 .. (m - 1)) \X (0 .. (n - 1))
CallIds == 1 .. MaxCalls

\* the decisions every worker of a call takes from the same arguments
kern == Dispatch(build, Atype, Btype, Ctype, n)
shape == TileShape(build, m, nth)
\* the false returns without the preflight k % KN of matmul
ReturnsFalseNoPreflight ==
    \/ kern.fam = "none"
    \/ kern.fam = "fp" /\ ~shape.ok

\* llamafile_sgemm returns false: at once, or from tinyBLAS::matmul
ReturnsFalse ==
    \/ kern.fam = "none"
    \/ kern.fam = "fp" /\ (k % kern.KN # 0 \/ ~shape.ok)
RunsFloat == kern.fam = "fp" /\ ~ReturnsFalse
RunsQuant == kern.fam = "q0"
FRN == FMnpack(shape.RN, BLOCK_SIZE(shape.RN, n))
plan == GemmPlan(m, n, shape.RM, FRN, shape.BM, shape.BN)
NbJob == IF RunsFloat /\ FRN # 0 THEN plan.nb_job ELSE 0

\* the value a kernel stores in cell c
CellValue(c) ==
    IF kern.fam = "fp" THEN FValues[kern.KN, <<k, c[1], c[2]>>]
    ELSE QValues[HasVNNI(build), Atype, full, k, c[1], c[2]]

\* the number of stores a set of tiles makes: RM * RN per tile
RECURSIVE NStores(_)
NStores(tiles) ==
    IF tiles = {} THEN 0
    ELSE LET t == CHOOSE x \in tiles : TRUE
             same == {x \in tiles : x.RM = t.RM /\ x.RN = t.RN}
         IN t.RM * t.RN * Cardinality(same) + NStores(tiles \ same)

Covered(tiles) == UNION {TileCells(t) : t \in tiles}

\* C after the stores of a set of tiles
Store(Cf, tiles) ==
    LET cov == Covered(tiles)
    IN [c \in Cells |-> IF c \in cov THEN CellValue(c) ELSE Cf[c]]

\* the per-cell store counts after the stores of a set of tiles
Count(wc, tiles) ==
    LET cov == Covered(tiles)
    IN IF Cardinality(cov) = NStores(tiles)
       THEN [c \in Cells |-> IF c \in cov THEN wc[c] + 1 ELSE wc[c]]
       ELSE [c \in Cells |->
               wc[c] + Cardinality({t \in tiles : c \in TileCells(t)})]

OutOfGrid(tiles) == ~(Covered(tiles) \subseteq Cells)

\* the same test on the corners of the tiles
TilesOutOfGrid(tiles) ==
    \E t \in tiles :
        \/ t.ii < 0
        \/ t.jj < 0
        \/ t.RM >= 1 /\ t.RN >= 1 /\ (t.ii + t.RM > m \/ t.jj + t.RN > n)

C0 == [c \in Cells |-> 0 - 1000000 - c[1] - c[2]]

\* nullptr
nullptr == 0

\* no call of mnpack in progress, no lanes or block under the kernels, a
\* zeroed taskflow_taskgraph
UnitsIdle ==
    /\ mnstack = <<>>
    /\ mncall = <<>>
    /\ vec = <<>>
    /\ blk = <<>>
    /\ tg = [taskflow_graph |-> nullptr, is_init |-> 0]
    /\ wrappers = <<>>
    /\ null_deref = FALSE
    /\ after_init = FALSE


(***************************************************************************)
(* Initial states: a pool of nth idle workers about to call the entry      *)
(* point with the same arguments, C holding arbitrary old contents.        *)
(***************************************************************************)
\* the shapes explored for a type triple that has a kernel: the small
\* grids, and for the floating-point engine a grid wide enough for two
\* column stripes
Shapes(At) ==
    IF At \in QuantTypes THEN (0 .. MaxM) \X NSet \X KSetQ
    ELSE (MSet \X NSet \X KSetF) \cup ({4} \X {WideN} \X {8})

\* the type triple has a kernel on the build (for some shape)
TypeMatch(b, At, Bt, Ct) == Dispatch(b, At, Bt, Ct, 4).fam # "none"

Init ==
    /\ build \in Builds
    /\ Atype \in Types
    /\ Btype \in BTypes
    /\ Ctype \in CTypes
    /\ nth \in 1 .. MaxNth
    /\ IF TypeMatch(build, Atype, Btype, Ctype)
       THEN /\ \E sh \in Shapes(Atype) : m = sh[1] /\ n = sh[2] /\ k = sh[3]
            /\ full \in (IF Atype \in QuantTypes THEN BOOLEAN ELSE {FALSE})
       ELSE /\ m = 4
            /\ n \in {1, 2}
            /\ k = 8
            /\ full = FALSE
    /\ chunk = 0
    /\ n_barrier = 0
    /\ n_barrier_passed = 0
    /\ pc = [w \in Workers |-> "idle"]
    /\ seen = [w \in Workers |-> 0]
    /\ job = [w \in Workers |-> 0]
    /\ ncall = [w \in Workers |-> 0]
    /\ ret = [w \in Workers |-> "none"]
    /\ C = C0
    /\ wrote = [w \in Workers |-> 0]
    /\ wcount = [c \in CallIds |-> [x \in Cells |-> 0]]
    /\ oob = FALSE
    /\ jcount = [c \in CallIds |-> [j \in 0 .. (NbJob - 1) |-> 0]]
    /\ chunk_call = 0
    /\ leak = FALSE
    /\ aborted = FALSE
    /\ UnitsIdle

(***************************************************************************)
(* The threadpool primitives the core consumes.                            *)
(***************************************************************************)
\* ggml_threadpool_chunk_set(tp, value)
chunk_set(value) == chunk' = value

\* ggml_threadpool_chunk_add(tp, value): the previous value is returned
chunk_add(value) == chunk' = chunk + value

\* ggml_barrier(tp), arrival: the last of the nth arrivals completes the
\* barrier, every other worker waits until it is completed
BarrierLast == n_barrier = nth - 1

(***************************************************************************)
(* Actions of worker w.                                                    *)
(***************************************************************************)
\* llamafile_sgemm returns false: no kernel for the types on this build,
\* n < 2, or the preflight of tinyBLAS::matmul fails
EnterFalse(w) ==
    /\ ~aborted
    /\ pc[w] = "idle"
    /\ ncall[w] < MaxCalls
    /\ ReturnsFalse
    /\ ncall' = [ncall EXCEPT ![w] = @ + 1]
    /\ ret' = [ret EXCEPT ![w] = "false"]
    /\ wrote' = [wrote EXCEPT ![w] = 0]
    /\ UNCHANGED <<units, inputs, chunk, barrier, pc, job, output, jcount, chunk_call,
                   leak, aborted>>

\* gemm with thread 0 storing nth + 1 to the shared counter
EnterFloatSkip(w) ==
    /\ ~aborted
    /\ pc[w] = "idle"
    /\ ncall[w] < MaxCalls
    /\ RunsFloat
    /\ ncall' = [ncall EXCEPT ![w] = @ + 1]
    /\ ret' = [ret EXCEPT ![w] = "none"]
    /\ wrote' = [wrote EXCEPT ![w] = 0]
    /\ IF FRN = 0 \/ ~plan.assert_m \/ (w = 0 /\ ~plan.assert_bn)
       THEN /\ aborted' = TRUE
            /\ UNCHANGED <<chunk, chunk_call, pc>>
       ELSE /\ aborted' = FALSE
            /\ pc' = [pc EXCEPT ![w] = "open"]
            /\ IF w = 0
               THEN chunk_set(nth + 1) /\ chunk_call' = ncall[w] + 1
               ELSE UNCHANGED <<chunk, chunk_call>>
    /\ UNCHANGED <<units, inputs, barrier, job, output, jcount, leak>>

\* gemm without the store of thread 0 to the shared counter
EnterFloatNoReset(w) ==
    /\ ~aborted
    /\ pc[w] = "idle"
    /\ ncall[w] < MaxCalls
    /\ RunsFloat
    /\ ncall' = [ncall EXCEPT ![w] = @ + 1]
    /\ ret' = [ret EXCEPT ![w] = "none"]
    /\ wrote' = [wrote EXCEPT ![w] = 0]
    /\ IF FRN = 0 \/ ~plan.assert_m \/ (w = 0 /\ ~plan.assert_bn)
       THEN /\ aborted' = TRUE
            /\ UNCHANGED <<chunk, chunk_call, pc>>
       ELSE /\ aborted' = FALSE
            /\ pc' = [pc EXCEPT ![w] = "open"]
            /\ IF w = 0
               THEN chunk' = chunk /\ chunk_call' = ncall[w] + 1
               ELSE UNCHANGED <<chunk, chunk_call>>
    /\ UNCHANGED <<units, inputs, barrier, job, output, jcount, leak>>

\* gemm with the last thread of the pool storing nth to the shared counter
EnterFloatLastStores(w) ==
    /\ ~aborted
    /\ pc[w] = "idle"
    /\ ncall[w] < MaxCalls
    /\ RunsFloat
    /\ ncall' = [ncall EXCEPT ![w] = @ + 1]
    /\ ret' = [ret EXCEPT ![w] = "none"]
    /\ wrote' = [wrote EXCEPT ![w] = 0]
    /\ IF FRN = 0 \/ ~plan.assert_m \/ (w = 0 /\ ~plan.assert_bn)
       THEN /\ aborted' = TRUE
            /\ UNCHANGED <<chunk, chunk_call, pc>>
       ELSE /\ aborted' = FALSE
            /\ pc' = [pc EXCEPT ![w] = "open"]
            /\ IF w = nth - 1
               THEN chunk_set(nth) /\ chunk_call' = ncall[w] + 1
               ELSE UNCHANGED <<chunk, chunk_call>>
    /\ UNCHANGED <<units, inputs, barrier, job, output, jcount, leak>>

\* llamafile_sgemm instantiates tinyBLAS; matmul picks the tile shape, mnpack
\* the RN, and gemm runs up to its opening ggml_barrier: thread 0 checks the
\* stripe partition and stores nth to the shared counter
EnterFloat(w) ==
    /\ ~aborted
    /\ pc[w] = "idle"
    /\ ncall[w] < MaxCalls
    /\ RunsFloat
    /\ ncall' = [ncall EXCEPT ![w] = @ + 1]
    /\ ret' = [ret EXCEPT ![w] = "none"]
    /\ wrote' = [wrote EXCEPT ![w] = 0]
    /\ IF FRN = 0 \/ ~plan.assert_m \/ (w = 0 /\ ~plan.assert_bn)
       THEN /\ aborted' = TRUE
            /\ UNCHANGED <<chunk, chunk_call, pc>>
       ELSE /\ aborted' = FALSE
            /\ pc' = [pc EXCEPT ![w] = "open"]
            /\ IF w = 0
               THEN chunk_set(nth) /\ chunk_call' = ncall[w] + 1
               ELSE UNCHANGED <<chunk, chunk_call>>
    /\ UNCHANGED <<units, inputs, barrier, job, output, jcount, leak>>

\* the quantised engine claiming its share with a fetch-add on the shared
\* counter, as the floating-point engine does
EnterQuantClaims(w) ==
    /\ ~aborted
    /\ pc[w] = "idle"
    /\ ncall[w] < MaxCalls
    /\ RunsQuant
    /\ LET tiles == QMnpack(build, w, nth, 0, m, 0, n)
       IN /\ C' = Store(C, tiles)
          /\ wcount' = [wcount EXCEPT ![ncall[w] + 1] = Count(@, tiles)]
          /\ oob' = (oob \/ OutOfGrid(tiles))
          /\ wrote' = [wrote EXCEPT ![w] = NStores(tiles)]
    /\ ncall' = [ncall EXCEPT ![w] = @ + 1]
    /\ ret' = [ret EXCEPT ![w] = "true"]
    /\ chunk_add(1)
    /\ UNCHANGED <<units, inputs, barrier, pc, job, jcount, chunk_call, leak,
                   aborted>>

\* llamafile_sgemm instantiates tinyBLAS_Q0_AVX, whose matmul runs
\* mnpack(0, m, 0, n) for this worker's share, and returns true
EnterQuant(w) ==
    /\ ~aborted
    /\ pc[w] = "idle"
    /\ ncall[w] < MaxCalls
    /\ RunsQuant
    /\ LET tiles == QMnpack(build, w, nth, 0, m, 0, n)
       IN /\ C' = Store(C, tiles)
          /\ wcount' = [wcount EXCEPT ![ncall[w] + 1] = Count(@, tiles)]
          /\ oob' = (oob \/ OutOfGrid(tiles))
          /\ wrote' = [wrote EXCEPT ![w] = NStores(tiles)]
    /\ ncall' = [ncall EXCEPT ![w] = @ + 1]
    /\ ret' = [ret EXCEPT ![w] = "true"]
    /\ UNCHANGED <<units, inputs, chunk, barrier, pc, job, jcount, chunk_call, leak,
                   aborted>>

\* where a worker continues after a barrier
AfterBarrier(p) == IF p \in {"open", "open_wait"} THEN "loop" ELSE "idle"

\* ggml_barrier: arrive
BarrierArrive(w) ==
    /\ ~aborted
    /\ pc[w] \in {"open", "close"}
    /\ IF BarrierLast
       THEN /\ n_barrier' = 0
            /\ n_barrier_passed' = n_barrier_passed + 1
            /\ seen' = seen
            /\ pc' = [pc EXCEPT ![w] = AfterBarrier(pc[w])]
            /\ job' = [job EXCEPT ![w] = IF pc[w] = "open" THEN w ELSE @]
            /\ ret' = [ret EXCEPT ![w] = IF pc[w] = "close" THEN "true" ELSE @]
       ELSE /\ n_barrier' = n_barrier + 1
            /\ n_barrier_passed' = n_barrier_passed
            /\ seen' = [seen EXCEPT ![w] = n_barrier_passed]
            /\ pc' = [pc EXCEPT ![w] = IF pc[w] = "open" THEN "open_wait"
                                                           ELSE "close_wait"]
            /\ UNCHANGED <<job, ret>>
    /\ UNCHANGED <<units, inputs, chunk, ncall, output, wrote, jcount, chunk_call,
                   leak, aborted>>

\* a barrier whose waiting workers return without the barrier being completed
BarrierLeaveEarly(w) ==
    /\ ~aborted
    /\ pc[w] \in {"open_wait", "close_wait"}
    /\ pc' = [pc EXCEPT ![w] = AfterBarrier(pc[w])]
    /\ job' = [job EXCEPT ![w] = IF pc[w] = "open_wait" THEN w ELSE @]
    /\ ret' = [ret EXCEPT ![w] = IF pc[w] = "close_wait" THEN "true" ELSE @]
    /\ UNCHANGED <<units, inputs, chunk, barrier, ncall, output, wrote, jcount,
                   chunk_call, leak, aborted>>

\* ggml_barrier: a waiting worker sees the barrier completed and returns;
\* after the opening barrier it starts at job = ith, after the closing one
\* gemm, matmul and llamafile_sgemm return (true)
BarrierLeave(w) ==
    /\ ~aborted
    /\ pc[w] \in {"open_wait", "close_wait"}
    /\ n_barrier_passed # seen[w]
    /\ pc' = [pc EXCEPT ![w] = AfterBarrier(pc[w])]
    /\ job' = [job EXCEPT ![w] = IF pc[w] = "open_wait" THEN w ELSE @]
    /\ ret' = [ret EXCEPT ![w] = IF pc[w] = "close_wait" THEN "true" ELSE @]
    /\ UNCHANGED <<units, inputs, chunk, barrier, ncall, output, wrote, jcount,
                   chunk_call, leak, aborted>>

\* the loop body reading the shared counter without adding to it
RunJobNoAdd(w) ==
    /\ ~aborted
    /\ pc[w] = "loop"
    /\ job[w] < plan.nb_job
    /\ LET jp == JobPlan(plan, job[w])
       IN /\ C' = Store(C, jp.tiles)
          /\ wcount' = [wcount EXCEPT ![ncall[w]] = Count(@, jp.tiles)]
          /\ oob' = (oob \/ OutOfGrid(jp.tiles))
          /\ wrote' = [wrote EXCEPT ![w] = @ + NStores(jp.tiles)]
          /\ aborted' = ~jp.assert_jj
    /\ jcount' = [jcount EXCEPT ![ncall[w]][job[w]] = @ + 1]
    /\ job' = [job EXCEPT ![w] = chunk]
    /\ chunk' = chunk
    /\ leak' = (leak \/ chunk_call # ncall[w])
    /\ UNCHANGED <<units, inputs, barrier, pc, ncall, ret, chunk_call>>

\* one iteration of while (job < nb_job): the tiles of the job, then
\* job = ggml_threadpool_chunk_add(tp, 1)
RunJob(w) ==
    /\ ~aborted
    /\ pc[w] = "loop"
    /\ job[w] < plan.nb_job
    /\ LET jp == JobPlan(plan, job[w])
       IN /\ C' = Store(C, jp.tiles)
          /\ wcount' = [wcount EXCEPT ![ncall[w]] = Count(@, jp.tiles)]
          /\ oob' = (oob \/ OutOfGrid(jp.tiles))
          /\ wrote' = [wrote EXCEPT ![w] = @ + NStores(jp.tiles)]
          /\ aborted' = ~jp.assert_jj
    /\ jcount' = [jcount EXCEPT ![ncall[w]][job[w]] = @ + 1]
    /\ job' = [job EXCEPT ![w] = chunk]
    /\ chunk_add(1)
    /\ leak' = (leak \/ chunk_call # ncall[w])
    /\ UNCHANGED <<units, inputs, barrier, pc, ncall, ret, chunk_call>>

\* gemm without its closing ggml_barrier: the worker returns true as soon as
\* its own loop ends
LoopExitNoBarrier(w) ==
    /\ ~aborted
    /\ pc[w] = "loop"
    /\ job[w] >= plan.nb_job
    /\ pc' = [pc EXCEPT ![w] = "idle"]
    /\ ret' = [ret EXCEPT ![w] = "true"]
    /\ UNCHANGED <<units, inputs, chunk, barrier, job, ncall, output, wrote,
                   jcount, chunk_call, leak, aborted>>

\* gemm in which a worker that ran no job returns without the closing barrier
LoopExitIdleReturns(w) ==
    /\ ~aborted
    /\ pc[w] = "loop"
    /\ job[w] >= plan.nb_job
    /\ pc' = [pc EXCEPT ![w] = IF wrote[w] = 0 THEN "idle" ELSE "close"]
    /\ ret' = [ret EXCEPT ![w] = IF wrote[w] = 0 THEN "true" ELSE @]
    /\ UNCHANGED <<units, inputs, chunk, barrier, job, ncall, output, wrote,
                   jcount, chunk_call, leak, aborted>>

\* the loop ending with one more fetch-add on the shared counter
LoopExitClaims(w) ==
    /\ ~aborted
    /\ pc[w] = "loop"
    /\ job[w] >= plan.nb_job
    /\ pc' = [pc EXCEPT ![w] = "close"]
    /\ chunk_add(1)
    /\ UNCHANGED <<units, inputs, barrier, job, ncall, ret, output, wrote,
                   jcount, chunk_call, leak, aborted>>

\* the loop ends: job >= nb_job
LoopExit(w) ==
    /\ ~aborted
    /\ pc[w] = "loop"
    /\ job[w] >= plan.nb_job
    /\ pc' = [pc EXCEPT ![w] = "close"]
    /\ UNCHANGED <<units, inputs, chunk, barrier, job, ncall, ret, output, wrote,
                   jcount, chunk_call, leak, aborted>>

Next ==
    \/ \E w \in Workers : EnterFalse(w)
    \/ \E w \in Workers : EnterFloat(w)
    \/ \E w \in Workers : EnterQuant(w)
    \/ \E w \in Workers : BarrierArrive(w)
    \/ \E w \in Workers : BarrierLeave(w)
    \/ \E w \in Workers : RunJob(w)
    \/ \E w \in Workers : LoopExit(w)

Spec == Init /\ [][Next]_vars

(***************************************************************************)
(* The partition of the floating-point engine on its own: one thread walks *)
(* matmul, mnpack and every job of gemm in the order of the job ids, over  *)
(* grids far wider than the ones whose cells are followed above.  The      *)
(* cells of C, the barrier and the shared counter are not followed here.   *)
(***************************************************************************)
MaxPlanN == 190
MaxPlanNth == 3

\* one build without a kernel, one of 16 and one of 32 vector registers
PlanBuilds == {"NONE", "AVX2", "AVX512F"}
PlanMSet == {0, 3, 4, 6, 8, 12, 16, 24, 32, 48, 64}

PlanInit ==
    /\ build \in PlanBuilds
    /\ Atype = "F32"
    /\ Btype = "F32"
    /\ Ctype = "F32"
    /\ nth \in 1 .. MaxPlanNth
    /\ m \in PlanMSet
    /\ n \in 0 .. MaxPlanN
    /\ k = 16
    /\ full = FALSE
    /\ chunk = 0
    /\ n_barrier = 0
    /\ n_barrier_passed = 0
    /\ pc = [w \in Workers |-> "idle"]
    /\ seen = [w \in Workers |-> 0]
    /\ job = [w \in Workers |-> 0]
    /\ ncall = [w \in Workers |-> 0]
    /\ ret = [w \in Workers |-> "none"]
    /\ C = <<>>
    /\ wrote = [w \in Workers |-> 0]
    /\ wcount = <<>>
    /\ oob = FALSE
    /\ jcount = [c \in CallIds |-> [j \in 0 .. (NbJob - 1) |-> 0]]
    /\ chunk_call = 0
    /\ leak = FALSE
    /\ aborted = FALSE
    /\ UnitsIdle

\* llamafile_sgemm up to the loop of gemm: false from the dispatcher or from
\* matmul, a fatal assertion of mnpack or gemm, or the first job
PlanMatmul ==
    /\ ~aborted
    /\ pc[0] = "idle"
    /\ ncall[0] = 0
    /\ ncall' = [ncall EXCEPT ![0] = 1]
    /\ IF ReturnsFalse
       THEN /\ ret' = [ret EXCEPT ![0] = "false"]
            /\ UNCHANGED <<pc, aborted>>
       ELSE IF FRN = 0 \/ ~plan.assert_m \/ ~plan.assert_bn
       THEN /\ aborted' = TRUE
            /\ UNCHANGED <<pc, ret>>
       ELSE /\ pc' = [pc EXCEPT ![0] = "loop"]
            /\ UNCHANGED <<ret, aborted>>
    /\ UNCHANGED <<units, inputs, chunk, barrier, job, output, wrote, jcount,
                   chunk_call, leak>>

\* the body of the loop of gemm for the next job id
PlanJob ==
    /\ ~aborted
    /\ pc[0] = "loop"
    /\ job[0] < plan.nb_job
    /\ LET jp == JobPlan(plan, job[0])
       IN /\ oob' = (oob \/ TilesOutOfGrid(jp.tiles))
          /\ wrote' = [wrote EXCEPT ![0] = @ + NStores(jp.tiles)]
          /\ aborted' = ~jp.assert_jj
    /\ jcount' = [jcount EXCEPT ![1][job[0]] = @ + 1]
    /\ job' = [job EXCEPT ![0] = @ + 1]
    /\ UNCHANGED <<units, inputs, chunk, barrier, pc, ncall, ret, C, wcount,
                   chunk_call, leak>>

\* no job is left: gemm, matmul and llamafile_sgemm return (true)
PlanReturn ==
    /\ ~aborted
    /\ pc[0] = "loop"
    /\ job[0] >= plan.nb_job
    /\ pc' = [pc EXCEPT ![0] = "idle"]
    /\ ret' = [ret EXCEPT ![0] = "true"]
    /\ UNCHANGED <<units, inputs, chunk, barrier, job, ncall, output, wrote,
                   jcount, chunk_call, leak, aborted>>

PlanNext ==
    \/ PlanMatmul
    \/ PlanJob
    \/ PlanReturn

PlanSpec == PlanInit /\ [][PlanNext]_vars

(***************************************************************************)
(* A pool of up to MaxPoolNth threads on a few small grids, the shared     *)
(* counter holding whatever an earlier user of the pool left in it.  Each  *)
(* worker is a thread of the pool: the scheduler lets a thread that can    *)
(* take its next step take it eventually, and every worker of the pool     *)
(* makes the calls (ggml_barrier requires all nth participants).           *)
(***************************************************************************)
MaxPoolNth == 3
StaleChunk == 5

PoolBuilds == {"AVX2", "AVX512F"}
PoolATypes == {"F32"} \cup QuantTypes
PoolBTypes == {"F32", "Q8_0"}
PoolShapes(At) ==
    IF At \in QuantTypes THEN {3, 4} \X {1, 2, 5} \X {MaxBlocks}
    ELSE {3, 4, 12, 16} \X {1, 2, 5} \X KSetF

PoolInit ==
    /\ build \in PoolBuilds
    /\ Atype \in PoolATypes
    /\ Btype \in PoolBTypes
    /\ Ctype = "F32"
    /\ nth \in 1 .. MaxPoolNth
    /\ IF TypeMatch(build, Atype, Btype, Ctype)
       THEN \E sh \in PoolShapes(Atype) : m = sh[1] /\ n = sh[2] /\ k = sh[3]
       ELSE m = 4 /\ n = 2 /\ k = 8
    /\ full = FALSE
    /\ chunk \in {0, StaleChunk}
    /\ n_barrier = 0
    /\ n_barrier_passed = 0
    /\ pc = [w \in Workers |-> "idle"]
    /\ seen = [w \in Workers |-> 0]
    /\ job = [w \in Workers |-> 0]
    /\ ncall = [w \in Workers |-> 0]
    /\ ret = [w \in Workers |-> "none"]
    /\ C = C0
    /\ wrote = [w \in Workers |-> 0]
    /\ wcount = [c \in CallIds |-> [x \in Cells |-> 0]]
    /\ oob = FALSE
    /\ jcount = [c \in CallIds |-> [j \in 0 .. (NbJob - 1) |-> 0]]
    /\ chunk_call = 0
    /\ leak = FALSE
    /\ aborted = FALSE
    /\ UnitsIdle

\* the steps of worker w inside ggml_barrier
BarrierStep(w) == w \in Workers /\ (BarrierArrive(w) \/ BarrierLeave(w))

\* worker w can take a step outside ggml_barrier: enter a call (one of
\* EnterFalse, EnterFloat, EnterQuant applies to any arguments), or run a job
\* or leave the loop (one of RunJob, LoopExit applies to any job id)
Turn(w) ==
    /\ w \in Workers
    /\ ~aborted
    /\ \/ pc[w] = "idle" /\ ncall[w] < MaxCalls
       \/ pc[w] = "loop"

\* ... and takes it: such a step changes the worker's own call count,
\* position or job id, and no step of another worker does
Moved(w) ==
    /\ Turn(w)
    /\ \/ ncall'[w] # ncall[w]
       \/ pc'[w] # pc[w]
       \/ job'[w] # job[w]

\* Weak fairness of each thread: of its steps inside the barrier as
\* WF_vars, of its other steps written out (Turn(w) is the enabling
\* condition of those steps, and ENABLED would evaluate the whole partition
\* of the call anew in every state).
FairSpec ==
    /\ PoolInit
    /\ [][Next]_vars
    /\ \A w \in 0 .. (MaxPoolNth - 1) :
          /\ WF_vars(BarrierStep(w))
          /\ ([]<>~Turn(w) \/ []<><<Moved(w)>>_vars)

(***************************************************************************)
(* The units of the quantised engine on their own, each applied to inputs  *)
(* drawn in the initial state: the recursive partitioner mnpack with the   *)
(* flat scheme of the kernels it calls (every worker makes the same calls  *)
(* and takes its own share of each), the sign folding and updot of one     *)
(* output lane, and the decoding of one block_q5_0.  The pool is at rest.  *)
(***************************************************************************)
MaxQM == 9
MaxQN == 9
MaxQNth == 4

\* tinyBLAS_Q0_AVX is compiled under __AVX__
UnitBuilds == {"AVX", "AVX2", "AVX512F", "AVX512BF16"}
\* the builds of the fallback tier and of the VNNI tier of updot
UpdotBuilds == {"AVX2", "AVX512BF16"}

Int8 == -128 .. 127
\* lanes at and next to the ends of the 8-bit range
EdgeLanes == {-128, -127, -1, 0, 1, 127}
CornerLanes == {-128, 0, 127}
\* the four lanes x0 .. x3 of one output lane
Lanes4(x0, x1, x2, x3) == [q \in 0 .. 3 |-> <<x0, x1, x2, x3>>[q + 1]]

\* the payload byte and the qh byte that vary, and the values of the qh byte
Q5Bytes == {0, 7, 15}
Q5Masks == {0, 1, 36, 128, 219, 255}

pool == <<chunk, barrier, pc, job, ncall, ret, output, wrote, jcount,
          chunk_call, leak, aborted>>

\* no call of llamafile_sgemm is made
PoolIdle ==
    /\ Btype = "Q8_0"
    /\ Ctype = "F32"
    /\ k = 1
    /\ full = FALSE
    /\ chunk = 0
    /\ n_barrier = 0
    /\ n_barrier_passed = 0
    /\ pc = [w \in Workers |-> "idle"]
    /\ seen = [w \in Workers |-> 0]
    /\ job = [w \in Workers |-> 0]
    /\ ncall = [w \in Workers |-> 0]
    /\ ret = [w \in Workers |-> "none"]
    /\ C = <<>>
    /\ wrote = [w \in Workers |-> 0]
    /\ wcount = <<>>
    /\ oob = FALSE
    /\ jcount = <<>>
    /\ chunk_call = 0
    /\ leak = FALSE
    /\ aborted = FALSE

\* matmul(m, n) about to call mnpack(0, m, 0, n)
MnpackInit ==
    /\ build \in UnitBuilds
    /\ Atype = "Q8_0"
    /\ m \in 0 .. MaxQM
    /\ n \in 2 .. MaxQN
    /\ nth \in 1 .. MaxQNth
    /\ mnstack = <<[m0 |-> 0, m |-> m, n0 |-> 0, n |-> n]>>
    /\ mncall = <<>>
    /\ vec = <<>>
    /\ blk = <<>>

\* four decoded lanes of a block of A and of a block of B: every pair of
\* 8-bit values in one lane, and the values at the ends of the range in all
UpdotInit ==
    /\ build \in UpdotBuilds
    /\ Atype = "Q8_0"
    /\ m = 0
    /\ n = 0
    /\ nth = 1
    /\ mnstack = <<>>
    /\ mncall = <<>>
    /\ blk = <<>>
    /\ \/ \E x \in Int8, y \in Int8 :
             vec = [a |-> Lanes4(x, 0, 0, 0), b |-> Lanes4(y, 0, 0, 0),
                    u |-> <<>>, s |-> <<>>, res |-> 0, st |-> "in"]
       \/ \E x0 \in EdgeLanes, x1 \in EdgeLanes, x2 \in CornerLanes,
             y0 \in EdgeLanes, y1 \in EdgeLanes, y2 \in CornerLanes :
             vec = [a |-> Lanes4(x0, x1, x2, x2), b |-> Lanes4(y0, y1, y2, y2),
                    u |-> <<>>, s |-> <<>>, res |-> 0, st |-> "in"]

\* one block_q5_0: 16 payload bytes qs and the 4 bytes of qh
BlockInit ==
    /\ build \in {"AVX", "AVX2"}
    /\ Atype = "Q5_0"
    /\ m = 0
    /\ n = 0
    /\ nth = 1
    /\ mnstack = <<>>
    /\ mncall = <<>>
    /\ vec = <<>>
    /\ \E p \in Q5Bytes, v \in 0 .. 255, hb \in 0 .. 3, h \in Q5Masks :
          blk = [qs |-> [i \in 0 .. 15 |-> IF i = p THEN v ELSE (17 * i + 3) % 256],
                 qh |-> [i \in 0 .. 3 |-> IF i = hb THEN h ELSE 165],
                 lanes |-> <<>>, lanes0 |-> <<>>, lanes1 |-> <<>>, st |-> "in"]

UnitInit ==
    /\ (MnpackInit \/ UpdotInit \/ BlockInit)
    /\ PoolIdle
    /\ tg = [taskflow_graph |-> nullptr, is_init |-> 0]
    /\ wrappers = <<>>
    /\ null_deref = FALSE
    /\ after_init = FALSE

\* tinyBLAS_Q0_AVX::mnpack(m0, m, n0, n), the next call in the order of the
\* recursion: the switch, the kernel on the region of whole tiles (share is
\* the job ids each worker's loop runs), and the two calls on the strips
MnpackCall ==
    /\ mnstack # <<>>
    /\ LET c == Head(mnstack)
           sh == QShape(build, c.m - c.m0, c.n - c.n0)
           mc == sh[1]
           nc == sh[2]
           mp == c.m0 + ((c.m - c.m0) \div mc) * mc
           np == c.n0 + ((c.n - c.n0) \div nc) * nc
       IN IF mc = 0
          THEN /\ mncall' = [m0 |-> c.m0, m |-> c.m, n0 |-> c.n0, n |-> c.n,
                             mc |-> 0, nc |-> 0, fn |-> "return",
                             share |-> [ith \in Workers |-> {}],
                             calls |-> <<>>]
               /\ mnstack' = Tail(mnstack)
          ELSE LET strips == <<[m0 |-> mp, m |-> c.m, n0 |-> c.n0, n |-> np],
                               [m0 |-> c.m0, m |-> c.m, n0 |-> np, n |-> c.n]>>
               IN /\ mncall' = [m0 |-> c.m0, m |-> c.m, n0 |-> c.n0, n |-> c.n,
                                mc |-> mc, nc |-> nc,
                                fn |-> QKernelFn(build, mc, nc),
                                share |->
                                  [ith \in Workers |->
                                     {t.job : t \in QGemm(ith, nth, c.m0, c.m,
                                                          c.n0, c.n, mc, nc)}],
                                calls |-> strips]
                  /\ mnstack' = strips \o Tail(mnstack)
    /\ UNCHANGED <<inputs, pool, vec, blk, tg, wrappers, null_deref, after_init>>

\* updot(_mm256_sign_epi8(a, a), _mm256_sign_epi8(b, a)), one output lane
UpdotLane ==
    /\ vec # <<>>
    /\ vec.st = "in"
    /\ LET u == [q \in 0 .. 3 |-> sign_epi8(vec.a[q], vec.a[q])]
           s == [q \in 0 .. 3 |-> sign_epi8(vec.b[q], vec.a[q])]
       IN vec' = [vec EXCEPT !.u = u, !.s = s, !.res = updot(build, u, s, 0),
                             !.st = "out"]
    /\ UNCHANGED <<inputs, pool, mnstack, mncall, blk, tg, wrappers, null_deref, after_init>>

\* load, load0 and load1 of the block
LoadBlock ==
    /\ blk # <<>>
    /\ blk.st = "in"
    /\ blk' = [blk EXCEPT
                 !.lanes = [q \in Lanes |-> load(Atype, blk.qs, blk.qh, q)],
                 !.lanes0 = [q \in 0 .. 15 |-> load0(Atype, blk.qs, blk.qh, q)],
                 !.lanes1 = [q \in 0 .. 15 |-> load1(Atype, blk.qs, blk.qh, q)],
                 !.st = "out"]
    /\ UNCHANGED <<inputs, pool, mnstack, mncall, vec, tg, wrappers, null_deref, after_init>>

UnitNext ==
    \/ MnpackCall
    \/ UpdotLane
    \/ LoadBlock

UnitSpec == UnitInit /\ [][UnitNext]_vars

(***************************************************************************)
(* The taskflow wrapper (taskflow-impl.cpp): one struct taskflow_taskgraph *)
(* and the calls a client makes on it.  A client adds tasks and runs the   *)
(* graph only after taskflow_graph_init has returned with no               *)
(* taskflow_graph_free since; it may call init, free and hello at any time.*)
(* Dereferencing a null taskflow_graph is undefined: the model records it  *)
(* in null_deref and lets the process make no further call.                *)
(***************************************************************************)
MaxTasks == 5
MaxRuns == 3
TaskNames == {"a", "hello"}

\* no call of llamafile_sgemm in progress, a zeroed taskflow_taskgraph
TaskflowInit0 ==
    /\ Atype = "Q8_0"
    /\ build = "AVX2"
    /\ m = 0
    /\ n = 0
    /\ nth = 1
    /\ PoolIdle
    /\ UnitsIdle

\* new TaskflowWrapper(): an empty flow and an executor that has run nothing
NewWrapper == [live |-> TRUE, flow |-> <<>>, runs |-> 0]

\* the body of taskflow_graph_init: the value of <<tg, wrappers>> it leaves
graph_init(g, ws) ==
    IF g.taskflow_graph # nullptr THEN <<g, ws>>
    ELSE IF g.is_init = 1 THEN <<g, ws>>
    ELSE <<[taskflow_graph |-> Len(ws) + 1, is_init |-> 1], Append(ws, NewWrapper)>>

\* taskflow_graph_init(tg)
TaskflowInit ==
    /\ ~null_deref
    /\ tg' = graph_init(tg, wrappers)[1]
    /\ wrappers' = graph_init(tg, wrappers)[2]
    /\ after_init' = TRUE
    /\ UNCHANGED <<inputs, pool, mnstack, mncall, vec, blk, null_deref>>

\* taskflow_graph_add_task(tg, name)
TaskflowAddTask(name) ==
    /\ ~null_deref
    /\ after_init
    /\ IF tg.taskflow_graph = nullptr
       THEN null_deref' = TRUE /\ UNCHANGED wrappers
       ELSE /\ Len(wrappers[tg.taskflow_graph].flow) < MaxTasks
            /\ wrappers' = [wrappers EXCEPT ![tg.taskflow_graph].flow = Append(@, name)]
            /\ UNCHANGED null_deref
    /\ UNCHANGED <<inputs, pool, mnstack, mncall, vec, blk, tg, after_init>>

\* taskflow_graph_run(tg)
TaskflowRun ==
    /\ ~null_deref
    /\ after_init
    /\ IF tg.taskflow_graph = nullptr
       THEN null_deref' = TRUE /\ UNCHANGED wrappers
       ELSE /\ wrappers[tg.taskflow_graph].runs < MaxRuns
            /\ wrappers' = [wrappers EXCEPT ![tg.taskflow_graph].runs = @ + 1]
            /\ UNCHANGED null_deref
    /\ UNCHANGED <<inputs, pool, mnstack, mncall, vec, blk, tg, after_init>>

\* taskflow_graph_free(tg): delete of a null pointer does nothing
TaskflowFree ==
    /\ ~null_deref
    /\ wrappers' = IF tg.taskflow_graph = nullptr THEN wrappers
                   ELSE [wrappers EXCEPT ![tg.taskflow_graph] =
                            [live |-> FALSE, flow |-> <<>>, runs |-> 0]]
    /\ tg' = [tg EXCEPT !.taskflow_graph = nullptr]
    /\ after_init' = FALSE
    /\ UNCHANGED <<inputs, pool, mnstack, mncall, vec, blk, null_deref>>

\* taskflow_graph_hello(tg): taskflow_graph_init, then one task emplaced
TaskflowHello ==
    /\ ~null_deref
    /\ LET g == graph_init(tg, wrappers)[1]
           ws == graph_init(tg, wrappers)[2]
       IN /\ tg' = g
          /\ IF g.taskflow_graph = nullptr
             THEN null_deref' = TRUE /\ wrappers' = ws
             ELSE /\ Len(ws[g.taskflow_graph].flow) < MaxTasks
                  /\ wrappers' = [ws EXCEPT ![g.taskflow_graph].flow = Append(@, "hello")]
                  /\ UNCHANGED null_deref
    /\ after_init' = TRUE
    /\ UNCHANGED <<inputs, pool, mnstack, mncall, vec, blk>>

TaskflowNext ==
    \/ TaskflowInit
    \/ \E name \in TaskNames : TaskflowAddTask(name)
    \/ TaskflowRun
    \/ TaskflowFree
    \/ TaskflowHello

TaskflowSpec == TaskflowInit0 /\ [][TaskflowNext]_vars

(***************************************************************************)
(* Properties.                                                             *)
(***************************************************************************)
\* every worker's last call has returned true
AllReturnedTrue == \A w \in Workers : ret[w] = "true"

\* every worker has completed exactly c calls
AllCompleted(c) == \A w \in Workers : ncall[w] = c /\ pc[w] = "idle"

\* every worker has left the job loop of its call c (or the whole of call c)
LeftLoop(c) ==
    \A w \in Workers :
        \/ ncall[w] > c
        \/ ncall[w] = c /\ pc[w] \in {"close", "close_wait", "idle"}

\* worker w has returned from a call
Returned(w) == ncall[w] >= 1 /\ pc[w] = "idle"

\* every cell of the grid has been stored to in call c
Written(c) == \A x \in Cells : wcount[c][x] >= 1

\* no store has happened: C holds its old contents
Untouched ==
    /\ C = C0
    /\ \A c \in CallIds : \A x \in Cells : wcount[c][x] = 0
    /\ \A w \in Workers : wrote[w] = 0

\* the tiles all workers of a pool of nth2 compute for the call's arguments
AllTiles(nth2) ==
    IF kern.fam = "q0"
    THEN UNION {QMnpack(build, w, nth2, 0, m, 0, n) : w \in 0 .. (nth2 - 1)}
    ELSE LET sh == TileShape(build, m, nth2)
             g == GemmPlan(m, n, sh.RM, FMnpack(sh.RN, BLOCK_SIZE(sh.RN, n)),
                           sh.BM, sh.BN)
         IN UNION {JobPlan(g, j).tiles : j \in 0 .. (g.nb_job - 1)}

\* C after a complete call by a pool of nth2 workers
FinalC(nth2) == Store(C0, AllTiles(nth2))

\* C with every cell holding the value the kernel computes for it
KernelC == [x \in Cells |-> CellValue(x)]

\* the pool sizes compared
NthSet == {1, 2, 4, 8, 16}

\* the type triples of the dispatch table
TableCombo(At, Bt, Ct) ==
    /\ Ct = "F32"
    /\ \/ At = "F32" /\ Bt = "F32"
       \/ At = "BF16" /\ Bt = "BF16"
       \/ At = "F16" /\ Bt = "F16"
       \/ At \in QuantTypes /\ Bt = "Q8_0"

\* the build has the instruction set the case of Atype is compiled for
KernelISA(b, At) ==
    CASE At = "F32" -> HasAVX512F(b) \/ HasAVX(b) \/ HasAVX2(b) \/ HasVXE(b)
      [] At = "BF16" -> HasAVX512BF16(b) \/ HasAVX512F(b) \/ HasAVX2(b)
      [] At = "F16" -> HasAVX512F(b) \/ ((HasAVX(b) \/ HasAVX2(b)) /\ HasF16C(b))
                       \/ HasVXE(b)
      [] At \in QuantTypes -> HasAVX2(b) \/ HasAVX512F(b) \/ HasAVX(b)
      [] OTHER -> FALSE

\* C1 as stated: once all nth workers have returned true, every cell of C
\* equals the naive reference, whatever the operands hold.
C1_EqualsReferenceAlways ==
    AllReturnedTrue => \A x \in Cells : C[x] = RefValue(Atype, full, k, x)

\* C1, amended: once all nth workers have returned true, every cell of C
\* equals the naive reference, provided no payload lane of the q8_0 operand
\* B is -128 (the operands being integer-valued, so that f32 sums are exact).
C1_EqualsReference ==
    (AllReturnedTrue /\ ~full) => \A x \in Cells : C[x] = RefValue(Atype, full, k, x)

C1_Witness ==
    /\ AllReturnedTrue
    /\ ~full
    /\ Atype = "Q8_0"
    /\ nth = MaxNth
    /\ m = MaxM /\ n = MaxN /\ k = MaxBlocks
    /\ \E x \in Cells : C[x] # 0 /\ C[x] = RefValue(Atype, full, k, x)

\* C2: in the floating-point path the tiles of one invocation store to
\* every cell of [0,m) x [0,n) exactly once: never twice, never outside the
\* grid, and to every cell once all workers have left the job loop.
C2_FloatCoversOnce ==
    RunsFloat =>
        /\ ~oob
        /\ \A c \in CallIds :
              /\ \A x \in Cells : wcount[c][x] <= 1
              /\ LeftLoop(c) => \A x \in Cells : wcount[c][x] = 1

C2_Witness ==
    /\ RunsFloat
    /\ nth = MaxNth
    /\ plan.nb_job > nth
    /\ n = MaxN
    /\ AllCompleted(1)
    /\ \A w \in Workers : wrote[w] > 0

\* C3: in the quantised path with n >= 2, mnpack(0, m, 0, n) run by all nth
\* workers stores to every cell of [0,m) x [0,n) exactly once: never twice,
\* never outside the grid, and to every cell once every worker has run.
C3_QuantCoversOnce ==
    RunsQuant =>
        /\ n >= 2
        /\ ~oob
        /\ \A c \in CallIds :
              /\ \A x \in Cells : wcount[c][x] <= 1
              /\ (\A w \in Workers : ncall[w] >= c) =>
                    \A x \in Cells : wcount[c][x] = 1

C3_Witness ==
    /\ RunsQuant
    /\ nth = MaxNth
    /\ m = MaxM /\ n = MaxN
    /\ AllCompleted(1)
    /\ \A w \in Workers : wrote[w] > 0

\* C4 as stated: whenever a worker's call has returned true, every cell of
\* C has been stored to in that call, in both kernel families.
C4_TrueMeansWritten ==
    \A w \in Workers : ret[w] = "true" => Written(ncall[w])

\* C4, amended: in the floating-point family a worker's call returns true
\* only after every cell has been stored to; in the quantised family, which
\* has no barrier, only after the worker's own share has been stored, and
\* every cell has been stored to once all nth workers have returned.
C4_TrueMeansWrittenFloat ==
    /\ RunsFloat => \A w \in Workers : ret[w] = "true" => Written(ncall[w])
    /\ RunsQuant =>
          /\ \A w \in Workers :
                ret[w] = "true" =>
                    \A x \in Covered(QMnpack(build, w, nth, 0, m, 0, n)) :
                        wcount[ncall[w]][x] >= 1
          /\ \A c \in CallIds : (\A w \in Workers : ncall[w] >= c) => Written(c)

C4_Witness ==
    /\ RunsFloat
    /\ nth = MaxNth
    /\ m > 0 /\ n > 0
    /\ ret[0] = "true"
    /\ \E w \in Workers : pc[w] = "close_wait" /\ ret[w] = "none"

\* C5: in each case in which llamafile_sgemm returns false - no kernel for
\* the types, Ctype not f32, n < 2, k not a multiple of KN or m not a
\* multiple of 4 in the floating-point engine - no worker returns true and
\* no cell of C is stored to; a call that returned false has stored nothing.
C5_FalseWritesNothing ==
    /\ \A w \in Workers : ret[w] = "false" => wrote[w] = 0 /\ C = C0
    /\ (\/ Ctype # "F32"
        \/ n < 2
        \/ ~(TableCombo(Atype, Btype, Ctype) /\ KernelISA(build, Atype))
        \/ Atype \in FloatTypes /\ kern.fam = "fp"
           /\ (k % kern.KN # 0 \/ m % 4 # 0))
       => /\ Untouched
          /\ \A w \in Workers : ret[w] # "true" /\ (Returned(w) => ret[w] = "false")

C5_Witness ==
    /\ Atype = "F32" /\ kern.fam = "fp"
    /\ k % kern.KN = 0 /\ m % 4 # 0 /\ m > 0 /\ n >= 2
    /\ \A w \in Workers : ret[w] = "false" /\ ncall[w] = MaxCalls
    /\ C = C0

\* C6: a call with n < 2 returns false for every type triple before any
\* kernel is instantiated: no worker runs a kernel, meets the barrier or
\* the counter, or stores to C.
C6_GemvReturnsFalse ==
    n < 2 =>
        /\ Untouched
        /\ chunk = 0 /\ n_barrier = 0 /\ n_barrier_passed = 0
        /\ \A w \in Workers :
              pc[w] = "idle" /\ ret[w] # "true" /\ (ncall[w] >= 1 => ret[w] = "false")

C6_Witness ==
    /\ Atype = "IQ4_NL" /\ Btype = "Q8_0" /\ Ctype = "F32"
    /\ HasAVX2(build)
    /\ n = 1 /\ m > 0
    /\ \A w \in Workers : ret[w] = "false"
    /\ C = C0

\* C7 as stated: a call returns true exactly on the type triples of the
\* dispatch table on a build with the needed instruction set.
C7_TrueExactlyOnTable ==
    \A w \in Workers :
        Returned(w) =>
            (ret[w] = "true" <=>
                TableCombo(Atype, Btype, Ctype) /\ KernelISA(build, Atype))

\* C7, amended: a call returns true exactly on the type triples of the
\* dispatch table on a build with the needed instruction set and a shape
\* the kernel accepts: n >= 2 (n >= 4 for f32 and f16 on VXE) and, for the
\* floating-point engine, k a multiple of KN and m a multiple of 4.
C7_TrueExactlyOnTableAndShape ==
    \A w \in Workers :
        Returned(w) =>
            (ret[w] = "true" <=>
                /\ TableCombo(Atype, Btype, Ctype)
                /\ KernelISA(build, Atype)
                /\ n >= 2
                /\ (HasVXE(build) /\ Atype \in {"F32", "F16"}) => n >= 4
                /\ Atype \in FloatTypes => (k % kern.KN = 0 /\ m % 4 = 0))

C7_Witness ==
    /\ Atype = "F32" /\ Btype = "F32" /\ Ctype = "F32"
    /\ HasAVX2(build)
    /\ n >= 2 /\ k % kern.KN = 0 /\ m % 4 # 0
    /\ Returned(0) /\ ret[0] = "false"

C9_CounterReset ==
    RunsFloat =>
        /\ ~leak
        /\ \A c \in CallIds : \A j \in 0 .. (NbJob - 1) :
              /\ jcount[c][j] <= 1
              /\ LeftLoop(c) => jcount[c][j] = 1
        /\ \A c \in CallIds : AllCompleted(c) => C = KernelC

C9_Witness ==
    /\ RunsFloat
    /\ nth = MaxNth
    /\ plan.nb_job > nth
    /\ AllCompleted(MaxCalls)
    /\ chunk > nth
    /\ \A j \in 0 .. (NbJob - 1) : jcount[MaxCalls][j] = 1

\* C10: if k mod KN # 0 in the floating-point engine, every worker's call
\* returns false without entering a barrier, touching the shared counter or
\* storing to C.
C10_Preflight ==
    (kern.fam = "fp" /\ k % kern.KN # 0) =>
        /\ Untouched
        /\ chunk = 0 /\ chunk_call = 0
        /\ n_barrier = 0 /\ n_barrier_passed = 0
        /\ \A w \in Workers :
              pc[w] = "idle" /\ ret[w] # "true" /\ (ncall[w] >= 1 => ret[w] = "false")

C10_Witness ==
    /\ kern.fam = "fp" /\ kern.KN = 16
    /\ k = 8 /\ m % 4 = 0 /\ m > 0
    /\ nth = MaxNth
    /\ \A w \in Workers : ret[w] = "false" /\ ncall[w] = MaxCalls

(***************************************************************************)
(* The partition of the floating-point engine (PlanSpec).                  *)
(***************************************************************************)
\* C11: the tile shape of the floating-point engine is the first match of
\* the table: RM = 4 with RN = 6 and stripe target 12 on 32 vector
\* registers, RN = 3 and stripe target 24 on 16; BM = 4 if m mod 16 = 0 and
\* m/16 >= nth, else BM = 2 if m mod 8 = 0, else BM = 1 if m mod 4 = 0, else
\* matmul returns false and no job runs.  Every shape selected divides m, so
\* GGML_ASSERT(m % (RM * BM) == 0) of gemm holds.
C11_TileShapeFirstMatch ==
    (kern.fam = "fp" /\ k % kern.KN = 0) =>
        LET first == m % 16 = 0 /\ m \div 16 >= nth
            regs32 == VECTOR_REGISTERS(build) = 32
        IN /\ shape.ok <=> m % 4 = 0
           /\ shape.ok =>
                /\ shape.RM = 4
                /\ shape.RN = (IF regs32 THEN 6 ELSE 3)
                /\ shape.BN = (IF regs32 THEN 12 ELSE 24)
                /\ shape.BM = 4 <=> first
                /\ shape.BM = 2 <=> (~first /\ m % 8 = 0)
                /\ shape.BM = 1 <=> (~first /\ m % 8 # 0)
                /\ m % (shape.RM * shape.BM) = 0
                /\ plan.assert_m
           /\ ~shape.ok =>
                /\ \A w \in Workers : pc[w] = "idle" /\ ret[w] # "true"
                /\ \A j \in DOMAIN jcount[1] : jcount[1][j] = 0
                /\ ~aborted

\* m = 16 with two threads: the first row of the table does not match
\* (m/16 < nth), the second does, and gemm has started
C11_Witness ==
    /\ RunsFloat
    /\ m = 16
    /\ nth = 2
    /\ shape.BM = 2
    /\ pc[0] = "loop"

\* C17: SIZE_N = BLOCK_SIZE<RN0>(n) = ceil(n / ceil(n / RN0)) lies in
\* 1 .. RN0 for every n >= 1 and RN0 in {6, 3}, so mnpack stops at
\* RN = SIZE_N and calls gemm with it: its GGML_ASSERT(false) is not reached.
C17_ColumnTileWidth ==
    /\ n >= 1 =>
         \A RN0 \in {6, 3} :
            LET SIZE_N == BLOCK_SIZE(RN0, n)
                nb == (n + RN0 - 1) \div RN0
            IN /\ SIZE_N = (n + nb - 1) \div nb
               /\ 1 <= SIZE_N
               /\ SIZE_N <= RN0
               /\ FMnpack(RN0, SIZE_N) = SIZE_N
    /\ RunsFloat =>
         /\ FRN # 0
         /\ FRN = BLOCK_SIZE(shape.RN, n)
         /\ plan.RN = FRN
         /\ (ncall[0] = 1 /\ ret[0] # "true" /\ pc[0] = "idle") => ~(FRN = 0)

\* n = 7 on 32 registers: SIZE_N = 4, mnpack steps RN from 6 down to 4 and
\* gemm<4, 4, BM> runs
C17_Witness ==
    /\ RunsFloat
    /\ n = 7
    /\ shape.RN = 6
    /\ FRN = 4
    /\ pc[0] = "loop"

\* C18: with RN = SIZE_N, xtiles = ceil(n / RN) and
\* jj_RN = xtiles - (xtiles * RN - n): 0 <= jj_RN <= xtiles and
\* jj_RN * RN + (xtiles - jj_RN) * (RN - 1) = n; the first jj_RN column tiles
\* are RN wide, the others RN - 1, and together they are the n columns
\* (no narrow tile when RN = 1).
C18_ColumnTiling ==
    /\ n >= 1 =>
         \A RN0 \in {6, 3} :
            LET g == GemmPlan(4, n, 4, BLOCK_SIZE(RN0, n), 1, 12)
            IN /\ g.xtiles = (n + g.RN - 1) \div g.RN
               /\ 0 <= g.jj_RN
               /\ g.jj_RN <= g.xtiles
               /\ g.jj_RN * g.RN + (g.xtiles - g.jj_RN) * (g.RN - 1) = n
               /\ BLOC_POS(0, g.jj_RN, g.RN) = 0
               /\ BLOC_POS(g.xtiles, g.jj_RN, g.RN) = n
               /\ g.RN = 1 => g.jj_RN = g.xtiles
    /\ RunsFloat =>
         /\ 0 <= plan.jj_RN
         /\ plan.jj_RN <= plan.xtiles
         /\ plan.jj_RN * plan.RN + (plan.xtiles - plan.jj_RN) * (plan.RN - 1) = n
         /\ ~oob
         /\ ret[0] = "true" => wrote[0] = m * n

\* a grid with both full and narrow column tiles, every job of it run
C18_Witness ==
    /\ RunsFloat
    /\ 0 < plan.jj_RN
    /\ plan.jj_RN < plan.xtiles
    /\ plan.NB_BN >= 2
    /\ m > 0
    /\ ret[0] = "true"
    /\ wrote[0] = m * n

\* C19: with NB_BN stripes, SIZE_BN = ceil(xtiles / NB_BN) and
\* jj_BN = NB_BN - (NB_BN * SIZE_BN - xtiles): 1 <= jj_BN <= NB_BN and
\* jj_BN * SIZE_BN + (NB_BN - jj_BN) * (SIZE_BN - 1) = xtiles, so the
\* assertion of thread 0 holds, and the stripe boundaries
\* BLOC_POS(jb, jj_BN, SIZE_BN), jb = 0 .. NB_BN, do not decrease from 0 to
\* xtiles.
C19_ColumnStripes ==
    RunsFloat =>
        /\ plan.NB_BN >= 1
        /\ plan.SIZE_BN = (plan.xtiles + plan.NB_BN - 1) \div plan.NB_BN
        /\ 1 <= plan.jj_BN
        /\ plan.jj_BN <= plan.NB_BN
        /\ plan.jj_BN * plan.SIZE_BN
             + (plan.NB_BN - plan.jj_BN) * (plan.SIZE_BN - 1) = plan.xtiles
        /\ plan.assert_bn
        /\ BLOC_POS(0, plan.jj_BN, plan.SIZE_BN) = 0
        /\ BLOC_POS(plan.NB_BN, plan.jj_BN, plan.SIZE_BN) = plan.xtiles
        /\ \A jb \in 0 .. (plan.NB_BN - 1) :
              BLOC_POS(jb, plan.jj_BN, plan.SIZE_BN)
                 <= BLOC_POS(jb + 1, plan.jj_BN, plan.SIZE_BN)
        /\ (ncall[0] = 1 /\ FRN # 0 /\ plan.assert_m) => ~aborted \/ pc[0] = "loop"

\* three stripes of which the last ones are one tile shorter, thread 0 past
\* its assertion
C19_Witness ==
    /\ RunsFloat
    /\ plan.NB_BN >= 3
    /\ plan.jj_BN < plan.NB_BN
    /\ pc[0] = "loop"
    /\ ~aborted

\* the job thread 0 is about to run starts in the full-width tiles and ends
\* in the narrow ones
Straddles(g, jobid) ==
    LET jp == JobPlan(g, jobid)
    IN jp.jj0 < g.jj_RN * g.RN /\ g.jj_RN * g.RN < jp.jj2

\* C20: in every job the column loop goes from jj0 by RN through the
\* full-width tiles up to jj1 = min(jj2, jj_RN * RN), then by RN - 1 through
\* the narrow tiles, and ends at jj2: GGML_ASSERT(jj == jj2) holds in every
\* job, whether its stripe lies in the full-width tiles, straddles the jj_RN
\* boundary or starts in the narrow tiles.
C20_ColumnLoopEndsAtJj2 ==
    /\ (RunsFloat /\ pc[0] = "loop" /\ ~aborted /\ job[0] < plan.nb_job) =>
          LET jp == JobPlan(plan, job[0])
              full_w == {t \in jp.tiles : t.RN = plan.RN}
              narrow == {t \in jp.tiles : t.RN = plan.RN - 1}
          IN /\ jp.assert_jj
             /\ jp.jj1 = Min(jp.jj2, plan.jj_RN * plan.RN)
             /\ jp.tiles = full_w \cup narrow
             /\ \A t \in full_w :
                   jp.jj0 <= t.jj /\ t.jj + plan.RN <= jp.jj1
                   /\ (t.jj - jp.jj0) % plan.RN = 0
             /\ \A t \in narrow :
                   jp.jj1 <= t.jj /\ t.jj + plan.RN - 1 <= jp.jj2
    /\ (RunsFloat /\ \E j \in DOMAIN jcount[1] : jcount[1][j] > 0) => ~aborted

\* a job of the second stripe whose columns cross the jj_RN boundary has run
C20_Witness ==
    /\ RunsFloat
    /\ ~aborted
    /\ pc[0] = "loop"
    /\ job[0] >= 1
    /\ plan.NB_BN >= 2
    /\ (job[0] - 1) \div plan.ytiles >= 1
    /\ Straddles(plan, job[0] - 1)
    /\ jcount[1][job[0] - 1] = 1

(***************************************************************************)
(* The pool under fair scheduling (FairSpec).                              *)
(***************************************************************************)
\* every worker has returned from its last call
PoolDone ==
    \A w \in Workers : pc[w] = "idle" /\ ncall[w] = MaxCalls /\ ret[w] # "none"

\* C12: when all nth workers of a pool call the entry point with the same
\* arguments, every worker eventually returns under fair scheduling.  All
\* take the same dispatch and tile-shape decision: either none or all of
\* them reach the opening and the closing barrier, each once per call, and
\* none stays blocked at a barrier, the workers with ith >= nb_job included.
C12_RunToCompletion ==
    /\ \A w \in 0 .. (MaxPoolNth - 1) :
          (w \in Workers /\ pc[w] # "idle")
             ~> (w \in Workers /\ pc[w] = "idle" /\ ret[w] = "true")
    /\ <>[]PoolDone
    /\ [](\A c \in CallIds :
             AllCompleted(c) =>
                /\ n_barrier = 0
                /\ n_barrier_passed = (IF RunsFloat THEN 2 * c ELSE 0)
                /\ \A w \in Workers :
                      ret[w] = (IF ReturnsFalse THEN "false" ELSE "true"))
    /\ [](\A w \in Workers : pc[w] # "idle" => RunsFloat)

\* a pool of three on a grid of one job: workers 1 and 2 ran no job, passed
\* both barriers of both calls and returned
C12_Witness ==
    /\ RunsFloat
    /\ nth = MaxPoolNth
    /\ plan.nb_job = 1
    /\ PoolDone
    /\ wrote[0] = m * n
    /\ wrote[1] = 0
    /\ wrote[2] = 0
    /\ n_barrier_passed = 2 * MaxCalls

\* C13: a call dispatched to tinyBLAS_Q0_AVX (q8_0, q4_0, q5_0, iq4_nl) never
\* calls the barrier and never reads or writes the shared counter of the
\* pool: the counter keeps its value through the call.
C13_QuantNoSync ==
    [][RunsQuant =>
         /\ chunk' = chunk
         /\ chunk_call' = chunk_call
         /\ n_barrier' = n_barrier
         /\ n_barrier_passed' = n_barrier_passed
         /\ seen' = seen
         /\ job' = job
         /\ \A w \in Workers : pc'[w] = "idle"]_vars

\* every worker of a pool of three has made its calls to the quantised
\* engine and the counter still holds what an earlier user left in it
C13_Witness ==
    /\ RunsQuant
    /\ nth = MaxPoolNth
    /\ PoolDone
    /\ \A w \in Workers : ret[w] = "true"
    /\ chunk = StaleChunk
    /\ n_barrier_passed = 0

\* the stores of all workers in their current call
SumWrote == Sum(LAMBDA w : wrote[w], 0, nth - 1)

\* C14: each worker of the floating-point path first runs the job id equal
\* to its ith, then the ids the fetch-add on the shared counter returns, and
\* leaves the loop at the first id >= nb_job.  Whatever nth, nb_job and the
\* interleaving, every id in [0, nb_job) is executed exactly once, by one
\* worker, and no id >= nb_job is executed.
C14_JobClaim ==
    RunsFloat =>
        /\ \A c \in CallIds :
              \A j \in DOMAIN jcount[c] :
                 /\ jcount[c][j] <= 1
                 /\ LeftLoop(c) => jcount[c][j] = 1
        /\ \A w \in Workers :
              pc[w] = "loop" =>
                 /\ job[w] = w \/ (nth <= job[w] /\ job[w] < chunk)
                 /\ job[w] < plan.nb_job => jcount[ncall[w]][job[w]] = 0
                 /\ \A v \in Workers \ {w} :
                       (pc[v] = "loop" /\ ncall[v] = ncall[w]) => job[v] # job[w]
        /\ \A w \in Workers : w >= plan.nb_job => wrote[w] = 0
        /\ ~oob
        /\ \A c \in CallIds : AllCompleted(c) => SumWrote = m * n

\* three jobs for two workers: both calls are over, every id ran once, and
\* one worker ran two of the three jobs
C14_Witness ==
    /\ RunsFloat
    /\ nth = 2
    /\ plan.nb_job = 3
    /\ PoolDone
    /\ \A c \in CallIds : \A j \in DOMAIN jcount[c] : jcount[c][j] = 1
    /\ wrote[1] = 2 * wrote[0]

\* C15: only thread 0 stores to the shared counter, it stores nth, and it
\* does so before it enters the opening barrier; so within one invocation no
\* worker does a fetch-add on the counter before the counter is set to nth.
C15_CounterStore ==
    [][/\ (chunk' # chunk \/ chunk_call' # chunk_call) =>
             \/ /\ pc[0] = "idle"
                /\ pc'[0] = "open"
                /\ chunk' = nth
                /\ chunk_call' = ncall'[0]
                /\ n_barrier' = n_barrier
                /\ n_barrier_passed' = n_barrier_passed
             \/ /\ chunk' = chunk + 1
                /\ chunk_call' = chunk_call
                /\ chunk >= nth
                /\ \E w \in Workers :
                      /\ pc[w] = "loop"
                      /\ job'[w] = chunk
                      /\ chunk_call = ncall[w]
       /\ (RunsFloat /\ pc[0] = "idle" /\ pc'[0] = "open") =>
             (chunk' = nth /\ chunk_call' = ncall'[0])
       /\ ~leak']_vars

\* in the second call of a pool of three, on a counter left by the first,
\* a fetch-add has followed the store of thread 0
C15_Witness ==
    /\ RunsFloat
    /\ nth = MaxPoolNth
    /\ chunk_call = MaxCalls
    /\ chunk > nth
    /\ \E w \in Workers : pc[w] = "loop" /\ ncall[w] = MaxCalls /\ job[w] >= nth
    /\ ~leak

\* C16: the workers of the floating-point path meet at a closing barrier: no
\* worker returns from tinyBLAS::gemm, and so from the entry point with
\* true, before every job in [0, nb_job) is completed.
C16_ClosingBarrier ==
    RunsFloat =>
        \A w \in Workers :
            ret[w] = "true" =>
                \A j \in DOMAIN jcount[ncall[w]] : jcount[ncall[w]][j] = 1

\* the last worker to arrive at the closing barrier has returned true while
\* the other is still waiting in it, all three jobs done
C16_Witness ==
    /\ RunsFloat
    /\ nth = 2
    /\ plan.nb_job = 3
    /\ \E w \in Workers :
          /\ ret[w] = "true"
          /\ pc[w] = "idle"
          /\ \E v \in Workers : pc[v] = "close_wait" /\ ncall[v] = ncall[w]

(***************************************************************************)
(* The jobs of the floating-point engine (PlanSpec).                       *)
(***************************************************************************)
\* C21: with nb_job = ytiles * NB_BN, J -> (J mod ytiles, J / ytiles) is a
\* bijection from the job ids [0, nb_job) onto [0, ytiles) x [0, NB_BN);
\* job J works on the rows [ii, ii + RM * BM) with
\* ii = (J mod ytiles) * RM * BM and on the column stripe jb = J / ytiles,
\* so two job ids never share both the row tile and the stripe.
C21_JobDecomposition ==
    (RunsFloat /\ pc[0] = "loop") =>
        LET g == plan
            rows == g.RM * g.BM
            Jobs == 0 .. (g.nb_job - 1)
            pos(J) == <<J % g.ytiles, J \div g.ytiles>>
        IN /\ g.nb_job = g.ytiles * g.NB_BN
           /\ \A J \in Jobs : \A K \in Jobs : J # K => pos(J) # pos(K)
           /\ {pos(J) : J \in Jobs}
                 = (0 .. (g.ytiles - 1)) \X (0 .. (g.NB_BN - 1))
           /\ job[0] \in Jobs =>
                 LET jp == JobPlan(g, job[0])
                 IN /\ jp.ii = pos(job[0])[1] * rows
                    /\ jp.jb = pos(job[0])[2]
                    /\ jp.jj0 = BLOC_POS(BLOC_POS(jp.jb, g.jj_BN, g.SIZE_BN),
                                         g.jj_RN, g.RN)
                    /\ jp.jj2 = BLOC_POS(BLOC_POS(jp.jb + 1, g.jj_BN, g.SIZE_BN),
                                         g.jj_RN, g.RN)
                    /\ \A t \in jp.tiles :
                          /\ jp.ii <= t.ii
                          /\ t.ii + t.RM <= jp.ii + rows
                          /\ jp.jj0 <= t.jj
                          /\ t.jj + t.RN <= jp.jj2

\* thread 0 has run the last job of a grid of three row tiles and three
\* column stripes
C21_Witness ==
    /\ RunsFloat
    /\ pc[0] = "loop"
    /\ ~aborted
    /\ plan.ytiles = 3
    /\ plan.NB_BN = 3
    /\ job[0] = plan.nb_job
    /\ wrote[0] = m * n

(***************************************************************************)
(* The units of the quantised engine (UnitSpec).                           *)
(***************************************************************************)
\* the key of the call of mnpack last made
MnKey == Min(mncall.m - mncall.m0, 4) * 16 + Min(mncall.n - mncall.n0, 4)
\* ... one of its digits is zero: the region is empty
MnEmpty == mncall.m - mncall.m0 <= 0 \/ mncall.n - mncall.n0 <= 0

\* the table of the shape dispatch: (mc, nc) by key
ShapeTable(key) ==
    CASE key = 68 -> <<4, 4>>
      [] key = 67 -> <<4, 3>>
      [] key = 52 -> <<3, 4>>
      [] key = 51 -> <<3, 3>>
      [] key = 66 -> <<4, 2>>
      [] key = 36 -> <<2, 4>>
      [] key = 50 -> <<3, 2>>
      [] key = 35 -> <<2, 3>>
      [] key = 65 -> <<4, 1>>
      [] key = 20 -> <<1, 4>>
      [] key = 34 -> <<2, 2>>
      [] key = 49 -> <<3, 1>>
      [] key = 19 -> <<1, 3>>
      [] key = 33 -> <<2, 1>>
      [] key = 18 -> <<1, 2>>
      [] key = 17 -> <<1, 1>>

\* a call on an empty region returns without a kernel and without recursing
MnReturnsAtOnce ==
    /\ mncall.mc = 0
    /\ mncall.fn = "return"
    /\ mncall.calls = <<>>
    /\ \A ith \in Workers : mncall.share[ith] = {}

\* C22, as stated: mnpack(m0, m, n0, n) computes the key
\* MIN(m - m0, 4) * 16 + MIN(n - n0, 4) and selects (mc, nc) from the table
\* 0x44 -> (4,4), 0x43 -> (4,3), 0x34 -> (3,4), 0x33 -> (3,3), 0x42 -> (4,2),
\* 0x24 -> (2,4), 0x32 -> (3,2), 0x23 -> (2,3), 0x41 -> (4,1), 0x14 -> (1,4),
\* 0x22 -> (2,2), and 0x31, 0x13, 0x21, 0x12, 0x11 as the key; a key with a
\* zero digit returns without computing or recursing.
C22_ShapeTable ==
    mncall # <<>> =>
        IF MnEmpty THEN MnReturnsAtOnce
        ELSE <<mncall.mc, mncall.nc>> = ShapeTable(MnKey)

\* C22, amended: the table is the one of a build with 32 vector registers;
\* with 16 registers the keys 0x44, 0x43, 0x42 select (4,2), 0x34 and 0x24
\* select (2,4) and 0x33 selects (3,2).  On every build a key with a zero
\* digit returns without computing or recursing, and any other call goes on
\* with the strips [mp, m) x [n0, np) and [m0, m) x [np, n).
C22_ShapeTableByRegisters ==
    mncall # <<>> =>
        IF MnEmpty THEN MnReturnsAtOnce
        ELSE /\ <<mncall.mc, mncall.nc>> =
                   (IF VECTOR_REGISTERS(build) = 32 THEN ShapeTable(MnKey)
                    ELSE IF MnKey \in {68, 67, 66} THEN <<4, 2>>
                    ELSE IF MnKey \in {52, 36} THEN <<2, 4>>
                    ELSE IF MnKey = 51 THEN <<3, 2>>
                    ELSE ShapeTable(MnKey))
             /\ Len(mncall.calls) = 2
             /\ mncall.calls[1].m0 =
                   mncall.m0 + ((mncall.m - mncall.m0) \div mncall.mc) * mncall.mc
             /\ mncall.calls[2].n0 =
                   mncall.n0 + ((mncall.n - mncall.n0) \div mncall.nc) * mncall.nc
             /\ mncall.calls[1].n = mncall.calls[2].n0

\* on a build with 32 registers a region of 7 x 3 has selected (4, 3) and
\* left a strip of 3 rows
C22_Witness ==
    /\ mncall # <<>>
    /\ VECTOR_REGISTERS(build) = 32
    /\ MnKey = 67
    /\ mncall.mc = 4
    /\ mncall.nc = 3
    /\ mncall.m - mncall.m0 = 7
    /\ mncall.calls[1].m0 = mncall.m0 + 4

\* C23, as stated: with only 16 vector registers the table differs from the
\* one of 32 registers only in that 0x44, 0x43 and 0x42 select (4,2) and
\* 0x34 and 0x24 select (2,4); every other key, 0x33 in particular, selects
\* the same (mc, nc) as with 32 registers.
C23_NarrowTable ==
    (mncall # <<>> /\ VECTOR_REGISTERS(build) = 16 /\ ~MnEmpty) =>
        <<mncall.mc, mncall.nc>> =
            (IF MnKey \in {68, 67, 66} THEN <<4, 2>>
             ELSE IF MnKey \in {52, 36} THEN <<2, 4>>
             ELSE QShape("AVX512F", mncall.m - mncall.m0, mncall.n - mncall.n0))

\* C23, amended: with 16 registers 0x33 selects (3,2) as well, where 32
\* registers select (3,3); every other key selects as with 32 registers.
C23_NarrowTableWith33 ==
    (mncall # <<>> /\ VECTOR_REGISTERS(build) = 16 /\ ~MnEmpty) =>
        /\ <<mncall.mc, mncall.nc>> =
              (IF MnKey \in {68, 67, 66} THEN <<4, 2>>
               ELSE IF MnKey \in {52, 36} THEN <<2, 4>>
               ELSE IF MnKey = 51 THEN <<3, 2>>
               ELSE QShape("AVX512F", mncall.m - mncall.m0, mncall.n - mncall.n0))
        /\ QShape("AVX512F", 3, 3) = <<3, 3>>
        /\ mncall.fn = QKernelFn(build, mncall.mc, mncall.nc)

\* on a build with 16 registers a region of 3 x 3 has selected (3, 2)
C23_Witness ==
    /\ mncall # <<>>
    /\ VECTOR_REGISTERS(build) = 16
    /\ MnKey = 51
    /\ mncall.mc = 3
    /\ mncall.nc = 2
    /\ mncall.fn = "gemm"

\* C24: with tiles = ytiles * xtiles and duty = ceil(tiles / nth), worker
\* ith runs the contiguous tile ids [duty * ith, min(duty * ith + duty,
\* tiles)); for every tiles >= 0 and nth >= 1 the ranges of the nth workers
\* are pairwise disjoint, their union is [0, tiles), and a worker whose
\* start is >= tiles runs nothing.
C24_FlatScheme ==
    (mncall # <<>> /\ mncall.mc # 0) =>
        LET ytiles == (mncall.m - mncall.m0) \div mncall.mc
            xtiles == (mncall.n - mncall.n0) \div mncall.nc
            tiles == ytiles * xtiles
            duty == (tiles + nth - 1) \div nth
        IN /\ duty * nth >= tiles
           /\ (duty - 1) * nth < tiles
           /\ \A ith \in Workers :
                 /\ mncall.share[ith] =
                       {j \in 0 .. (tiles - 1) :
                           duty * ith <= j /\ j < duty * ith + duty}
                 /\ duty * ith >= tiles => mncall.share[ith] = {}
                 /\ \A oth \in Workers :
                       oth # ith => mncall.share[ith] \cap mncall.share[oth] = {}
           /\ UNION {mncall.share[ith] : ith \in Workers} = 0 .. (tiles - 1)
           /\ \A ith \in Workers :
                 QGemm(ith, nth, mncall.m, mncall.m, mncall.n0, mncall.n,
                       mncall.mc, mncall.nc) = {}

\* four workers, six tiles: duty 2, three workers run two tiles each and
\* the last one, whose start is 6, runs nothing
C24_Witness ==
    /\ mncall # <<>>
    /\ mncall.mc # 0
    /\ nth = 4
    /\ mncall.share[0] = {0, 1}
    /\ mncall.share[2] = {4, 5}
    /\ mncall.share[3] = {}

\* the updot step has been applied to the lanes in vec
Folded == vec # <<>> /\ vec.st = "out"
\* lane q of B is -128 against a negative lane of A
WrapsAt(q) == vec.b[q] = -128 /\ vec.a[q] < 0

\* C25, as stated: for every pair of signed 8-bit lanes a of A and b of B,
\* sign(a, a) read as unsigned times sign(b, a) read as signed (sign_epi8:
\* zero where the second argument is 0, negated with 8-bit wrap-around where
\* it is negative, unchanged where it is positive) is the signed product
\* a * b, so updot(sign(A, A), sign(B, A)) is the exact signed dot product.
C25_SignFolding ==
    Folded =>
        /\ \A q \in 0 .. 3 : U8(vec.u[q]) * vec.s[q] = vec.a[q] * vec.b[q]
        /\ vec.res = Sum(LAMBDA q : vec.a[q] * vec.b[q], 0, 3)

\* C25, amended: the product is a * b for every a and every b other than
\* -128, and for b = -128 when a >= 0; for b = -128 and a < 0 the negation
\* wraps to -128 and the product is -(a * b).  updot is the exact signed
\* dot product when no lane of B is -128 against a negative lane of A.
C25_SignFoldingInRange ==
    Folded =>
        /\ \A q \in 0 .. 3 :
              /\ vec.u[q] = (IF vec.a[q] < 0 THEN ToInt8(0 - vec.a[q]) ELSE vec.a[q])
              /\ vec.s[q] = (IF vec.a[q] < 0 THEN ToInt8(0 - vec.b[q])
                             ELSE IF vec.a[q] = 0 THEN 0 ELSE vec.b[q])
              /\ ~WrapsAt(q) => U8(vec.u[q]) * vec.s[q] = vec.a[q] * vec.b[q]
              /\ WrapsAt(q) => U8(vec.u[q]) * vec.s[q] = 0 - vec.a[q] * vec.b[q]
        /\ (\A q \in 0 .. 3 : ~WrapsAt(q)) =>
              vec.res = Sum(LAMBDA q : vec.a[q] * vec.b[q], 0, 3)

\* a lane of -128 in A against 127 in B: 128 unsigned times -127
C25_Witness ==
    /\ Folded
    /\ vec.a[0] = -128
    /\ vec.b[0] = 127
    /\ U8(vec.u[0]) = 128
    /\ vec.s[0] = -127
    /\ vec.res = -16256

\* C26: for every input made by sign folding (u = sign(a, a) unsigned,
\* s = sign(b, a) signed, any signed 8-bit a, b) the fallback tier, pairwise
\* u * s summed into a saturating signed 16-bit value and adjacent 16-bit
\* pairs added into 32 bits, never saturates and returns in each output lane
\* the same integer, the sum of four u * s products, as the VNNI tiers.
C26_UpdotTiers ==
    Folded =>
        LET p(q) == U8(vec.u[q]) * vec.s[q]
        IN /\ -32768 <= p(0) + p(1)
           /\ p(0) + p(1) <= 32767
           /\ -32768 <= p(2) + p(3)
           /\ p(2) + p(3) <= 32767
           /\ vec.res = p(0) + p(1) + p(2) + p(3)
           /\ updot("AVX2", vec.u, vec.s, 0) = updot("AVX512BF16", vec.u, vec.s, 0)

\* the fallback tier on four lanes of -128 against -128: each pair sums to
\* -32768, the least 16-bit value
C26_Witness ==
    /\ Folded
    /\ ~HasVNNI(build)
    /\ U8(vec.u[0]) * vec.s[0] + U8(vec.u[1]) * vec.s[1] = -32768
    /\ vec.res = -65536

\* C27: for every q5_0 block and every lane i in 0..31 the decoded value is
\* nibble_i OR (0xF0 if bit i of the 32-bit qh is 0, else 0x00), that is
\* (nibble_i + 16 * bit_i) - 16 in [-16, 15], nibble_i being the low nibble
\* of payload byte i for i < 16 and the high nibble of byte i - 16 for
\* i >= 16; load0 and load1 return lanes 0..15 and 16..31 of that result.
C27_LoadQ5 ==
    (blk # <<>> /\ blk.st = "out") =>
        LET nibble(i) == IF i < 16 THEN blk.qs[i] % 16
                         ELSE (blk.qs[i - 16] \div 16) % 16
            bit(i) == (blk.qh[i \div 8] \div (2 ^ (i % 8))) % 2
        IN /\ \A i \in 0 .. 31 :
                 /\ blk.lanes[i] = (nibble(i) + 16 * bit(i)) - 16
                 /\ blk.lanes[i] \in -16 .. 15
                 /\ U8(blk.lanes[i]) =
                       nibble(i) + (IF bit(i) = 0 THEN 240 ELSE 0)
           /\ \A i \in 0 .. 15 :
                 /\ blk.lanes0[i] = blk.lanes[i]
                 /\ blk.lanes1[i] = blk.lanes[16 + i]

\* a block decoded: lane 7 is 15 (nibble 15, bit set) and lane 23, the high
\* nibble of the same byte, is -16 (nibble 0, bit clear)
C27_Witness ==
    /\ blk # <<>>
    /\ blk.st = "out"
    /\ blk.qs[7] = 15
    /\ blk.lanes[7] = 15
    /\ blk.lanes[23] = -16
    /\ blk.lanes0[7] = 15
    /\ blk.lanes1[7] = -16

(***************************************************************************)
(* Stores and the shared counter (Spec).                                   *)
(***************************************************************************)
\* the tile lies within the m x n grid of C
InGrid(t) ==
    /\ 0 <= t.ii
    /\ t.ii + t.RM <= m
    /\ 0 <= t.jj
    /\ t.jj + t.RN <= n

\* C28: in both kernel families every store to C goes to index ldc*j + i
\* with 0 <= i < m and 0 <= j < n: no tile of any job, full-width, narrow
\* (RN - 1) or of a remainder strip of mnpack, reaches past row m or column
\* n, and nothing outside the m x n grid is written.
C28_WriteBounds ==
    /\ ~oob
    /\ \A w \in Workers : wrote[w] <= m * n
    /\ RunsFloat =>
          \A w \in Workers :
             (pc[w] = "loop" /\ job[w] < plan.nb_job) =>
                \A t \in JobPlan(plan, job[w]).tiles : InGrid(t)
    /\ RunsQuant =>
          \A w \in Workers :
             \A t \in QMnpack(build, w, nth, 0, m, 0, n) : InGrid(t)

\* two workers have stored a 5 x 7 grid through the quantised kernels: the
\* region of whole tiles and both remainder strips
C28_Witness ==
    /\ RunsQuant
    /\ m = 5
    /\ n = 7
    /\ nth = 2
    /\ AllCompleted(1)
    /\ AllReturnedTrue
    /\ wrote[0] + wrote[1] = 35
    /\ \E t \in QMnpack(build, 0, nth, 0, m, 0, n) \cup QMnpack(build, 1, nth, 0, m, 0, n) :
          t.m0 > 0
    /\ ~oob

\* the jobs executed so far in call c
JobsRun(c) == Sum(LAMBDA j : jcount[c][j], 0, NbJob - 1)

\* the counter after the store of call chunk_call: one fetch-add for each
\* job executed so far
Accounted ==
    (RunsFloat /\ chunk_call > 0 /\ ~aborted) => chunk = nth + JobsRun(chunk_call)

\* C30: in the floating-point path each worker does exactly one fetch-add
\* for each job it executes and none otherwise: after thread 0 has stored
\* nth the shared counter only increases, never exceeds nth + nb_job, and is
\* exactly nth + nb_job when the workers reach the closing barrier, for
\* every nth >= 1 and nb_job >= 0, nb_job < nth and nb_job = 0 included.
C30_CounterAccounting ==
    [][RunsFloat =>
         /\ Accounted
         /\ chunk' # chunk =>
               \/ /\ chunk' = chunk + 1
                  /\ chunk_call' = chunk_call
                  /\ \E w \in Workers :
                        /\ pc[w] = "loop"
                        /\ job[w] < NbJob
                        /\ jcount' = [jcount EXCEPT ![ncall[w]][job[w]] = @ + 1]
               \/ /\ chunk' = nth
                  /\ chunk_call' = chunk_call + 1
                  /\ jcount' = jcount
                  /\ pc[0] = "idle"
         /\ jcount' # jcount => chunk' = chunk + 1
         /\ (chunk_call' > 0 /\ ~aborted') =>
               /\ nth <= chunk'
               /\ chunk' <= nth + NbJob
               /\ LeftLoop(chunk_call)' => chunk' = nth + NbJob]_vars

\* two workers at the closing barrier of their second call over a single
\* job: the counter stands at nth + 1
C30_Witness ==
    /\ RunsFloat
    /\ ~aborted
    /\ nth = 2
    /\ plan.nb_job = 1
    /\ chunk_call = MaxCalls
    /\ \A w \in Workers : ncall[w] = MaxCalls /\ pc[w] \in {"close", "close_wait"}
    /\ chunk = nth + 1
    /\ JobsRun(MaxCalls) = 1

(***************************************************************************)
(* The taskflow wrapper (TaskflowSpec).                                    *)
(***************************************************************************)
\* C29: after any sequence of taskflow_graph_init and taskflow_graph_free
\* on one taskflow_taskgraph, a return from taskflow_graph_init leaves
\* taskflow_graph non-null, so add_task, run and hello, which dereference
\* it unchecked, never dereference null after init; init, free, init
\* included.
C29_InitLeavesGraph ==
    /\ after_init => tg.taskflow_graph # nullptr
    /\ ~null_deref

=============================================================================
